---- MODULE Spec2Model ----
(***************************************************************************)
(* Model of the Brutalist UI MCP server: the response cache               *)
(* (utils/api.ts), the registry client (fetchRegistryIndex /              *)
(* fetchComponent), the zod schemas (schemas/registry.ts), the query      *)
(* layer (searchComponents, ...), the tool handlers (tools.ts) and the    *)
(* start-up configuration (index.ts main / parseArgs).                    *)
(*                                                                         *)
(* Conventions.                                                            *)
(*  - A JSON document on the wire is a tree of nodes                       *)
(*    [t, v, items, fields]; the schemas validate such a tree and turn     *)
(*    it into a typed value (records, sequences, BOOLEAN), dropping the    *)
(*    keys the schema does not name, as zod does.                          *)
(*  - Text that the query layer inspects character by character is a      *)
(*    sequence of one-character strings; keys, URLs and message prefixes   *)
(*    are strings.                                                         *)
(*  - An Error is a record of the fragments of its template literal.       *)
(***************************************************************************)
EXTENDS Integers, Sequences, FiniteSets, TLC

\* ------------------------------------------------------------------ bounds
\* Invocations a behaviour may start (each is logged and never forgotten).
MaxCalls == 2
\* Requests a behaviour may send with arguments of any shape.
MaxRequests == 1
\* The clock takes the values m * CACHE_TTL + d, m \in 0..MaxEpochs, d \in 0..1.
MaxEpochs == 1

\* Components in an index the query layer is applied to.
MaxIndexLen == 3

\* JS null / undefined.
Null == "null"
\* An environment variable that is not set.
Unset == "unset"

\* ------------------------------------------------------------- JSON trees
JStr(s) == [t |-> "string", v |-> s, items |-> <<>>, fields |-> <<>>]
JBool(b) ==
  [t |-> "boolean", v |-> IF b THEN <<"1">> ELSE <<>>, items |-> <<>>, fields |-> <<>>]
JNum(s) == [t |-> "number", v |-> s, items |-> <<>>, fields |-> <<>>]
JArr(seq) == [t |-> "array", v |-> <<>>, items |-> seq, fields |-> <<>>]
JObj(rec) == [t |-> "object", v |-> <<>>, items |-> <<>>, fields |-> rec]

Has(n, f) == f \in DOMAIN n.fields
IsString(n) == n.t = "string"
IsBoolean(n) == n.t = "boolean"
IsStringArray(n) == n.t = "array" /\ \A i \in DOMAIN n.items : IsString(n.items[i])
IsStringRecord(n) == n.t = "object" /\ \A f \in DOMAIN n.fields : IsString(n.fields[f])
\* z.string() / z.string().optional() on key f of object node n
ReqString(n, f) == Has(n, f) /\ IsString(n.fields[f])
OptString(n, f) == Has(n, f) => IsString(n.fields[f])
StringsOf(n) == [i \in DOMAIN n.items |-> n.items[i].v]

\* ---------------------------------------------------------------- schemas
\* A value is truthy in `data.path || data.name` when it is a non-empty string.
Truthy(n, f) == Has(n, f) /\ n.fields[f].v # <<>>

\* The object shape without the refinement.
ComponentFileSchema_NoRefinement(n) ==
  /\ n.t = "object"
  /\ \A f \in {"path", "name", "type", "target", "language"} : OptString(n, f)
  /\ ReqString(n, "content")

\* ComponentFileSchema: the object shape, then the refinement.
ComponentFileSchema(n) ==
  /\ n.t = "object"
  /\ \A f \in {"path", "name", "type", "target", "language"} : OptString(n, f)
  /\ ReqString(n, "content")
  /\ (Truthy(n, "path") \/ Truthy(n, "name"))
ParseComponentFile(n) ==
  [f \in DOMAIN n.fields \cap {"path", "name", "type", "target", "language", "content"} |->
     n.fields[f].v]

BrutalistFlagKeys ==
  {"hasThickBorders", "hasShadows", "hasSharpCorners", "hasHighContrast",
   "hasAnimations", "hasGlitchEffects"}
BrutalistFeaturesSchema(n) ==
  /\ n.t = "object"
  /\ \A f \in BrutalistFlagKeys : Has(n, f) => IsBoolean(n.fields[f])
  /\ Has(n, "theme")
       => /\ IsString(n.fields["theme"])
          /\ n.fields["theme"].v \in {<<"classic">>, <<"modern">>, <<"experimental">>}
ParseBrutalistFeatures(n) ==
  [f \in DOMAIN n.fields \cap (BrutalistFlagKeys \cup {"theme"}) |->
     IF f = "theme" THEN [theme |-> n.fields[f].v] ELSE [flag |-> n.fields[f].v # <<>>]]

ComponentStringKeys == {"name", "description", "version"}
ComponentOptStringKeys ==
  {"$schema", "type", "title", "author", "framework", "category", "lastUpdated"}
ComponentOptArrayKeys == {"frameworks", "categories", "tags"}
ComponentOptDepKeys == {"dependencies", "peerDependencies"}
ComponentKeys ==
  ComponentStringKeys \cup ComponentOptStringKeys \cup ComponentOptArrayKeys
    \cup ComponentOptDepKeys \cup {"brutalistFeatures", "files"}
\* The keys of a body on which ComponentSchema raises an issue.
ComponentIssues(n) ==
  IF n.t # "object" THEN {"<root>"}
  ELSE {f \in ComponentKeys :
          \/ f \in ComponentStringKeys /\ ~ReqString(n, f)
          \/ f \in ComponentOptStringKeys /\ ~OptString(n, f)
          \/ f \in ComponentOptArrayKeys /\ Has(n, f) /\ ~IsStringArray(n.fields[f])
          \/ f \in ComponentOptDepKeys /\ Has(n, f)
               /\ ~(IsStringArray(n.fields[f]) \/ IsStringRecord(n.fields[f]))
          \/ f = "brutalistFeatures" /\ Has(n, f) /\ ~BrutalistFeaturesSchema(n.fields[f])
          \/ f = "files"
               /\ ~(/\ Has(n, f)
                    /\ n.fields[f].t = "array"
                    /\ \A i \in DOMAIN n.fields[f].items :
                         ComponentFileSchema(n.fields[f].items[i]))}
ComponentSchema(n) == ComponentIssues(n) = {}
ParseComponent(n) ==
  [f \in DOMAIN n.fields \cap ComponentKeys |->
     CASE f \in ComponentStringKeys \cup ComponentOptStringKeys -> [str |-> n.fields[f].v]
       [] f \in ComponentOptArrayKeys -> [arr |-> StringsOf(n.fields[f])]
       [] f \in ComponentOptDepKeys ->
            IF n.fields[f].t = "array" THEN [arr |-> StringsOf(n.fields[f])]
            ELSE [rec |-> [k \in DOMAIN n.fields[f].fields |-> n.fields[f].fields[k].v]]
       [] f = "brutalistFeatures" -> [obj |-> ParseBrutalistFeatures(n.fields[f])]
       [] f = "files" ->
            [files |-> [i \in DOMAIN n.fields[f].items |->
                          ParseComponentFile(n.fields[f].items[i])]]]

RegistryComponentSchema(n) ==
  /\ n.t = "object"
  /\ \A f \in {"name", "title", "description", "type", "url"} : ReqString(n, f)
  /\ Has(n, "categories") /\ IsStringArray(n.fields["categories"])
  /\ Has(n, "featured") /\ IsBoolean(n.fields["featured"])
ParseRegistryComponent(n) ==
  [name |-> n.fields["name"].v,
   title |-> n.fields["title"].v,
   description |-> n.fields["description"].v,
   type |-> n.fields["type"].v,
   categories |-> StringsOf(n.fields["categories"]),
   featured |-> n.fields["featured"].v # <<>>,
   url |-> n.fields["url"].v]

CategorySchema(n) ==
  n.t = "object" /\ ReqString(n, "title") /\ ReqString(n, "description")
ParseCategory(n) ==
  [title |-> n.fields["title"].v, description |-> n.fields["description"].v]

MetaSchema(n) ==
  /\ n.t = "object"
  /\ ReqString(n, "lastUpdated")
  /\ Has(n, "totalComponents") /\ n.fields["totalComponents"].t = "number"
  /\ ReqString(n, "maintainer")
ParseMeta(n) ==
  [lastUpdated |-> n.fields["lastUpdated"].v,
   totalComponents |-> n.fields["totalComponents"].v,
   maintainer |-> n.fields["maintainer"].v]

RegistryIndexStringKeys == {"name", "description", "version", "framework", "baseUrl"}
RegistryIndexKeys ==
  RegistryIndexStringKeys \cup {"$schema", "components", "categories", "meta"}
\* The keys of a body on which RegistryIndexSchema raises an issue.
RegistryIndexIssues(n) ==
  IF n.t # "object" THEN {"<root>"}
  ELSE {f \in RegistryIndexKeys :
          \/ f \in RegistryIndexStringKeys /\ ~ReqString(n, f)
          \/ f = "$schema" /\ ~OptString(n, f)
          \/ f = "components"
               /\ ~(/\ Has(n, f)
                    /\ n.fields[f].t = "array"
                    /\ \A i \in DOMAIN n.fields[f].items :
                         RegistryComponentSchema(n.fields[f].items[i]))
          \/ f = "categories"
               /\ ~(/\ Has(n, f)
                    /\ n.fields[f].t = "object"
                    /\ \A k \in DOMAIN n.fields[f].fields :
                         CategorySchema(n.fields[f].fields[k]))
          \/ f = "meta" /\ Has(n, f) /\ ~MetaSchema(n.fields[f])}
RegistryIndexSchema(n) == RegistryIndexIssues(n) = {}
\* The typed RegistryIndex; `meta` is a sequence of zero or one record (optional).
ParseRegistryIndex(n) ==
  [name |-> n.fields["name"].v,
   description |-> n.fields["description"].v,
   version |-> n.fields["version"].v,
   framework |-> n.fields["framework"].v,
   baseUrl |-> n.fields["baseUrl"].v,
   components |-> [i \in DOMAIN n.fields["components"].items |->
                     ParseRegistryComponent(n.fields["components"].items[i])],
   categories |-> [k \in DOMAIN n.fields["categories"].fields |->
                     ParseCategory(n.fields["categories"].fields[k])],
   meta |-> IF Has(n, "meta") THEN <<ParseMeta(n.fields["meta"])>> ELSE <<>>]

\* ------------------------------------------------- documents on the wire
Btn == <<"B", "t", "n">>
Txt == <<"x">>
RawSummary(name, title, description, cats, featured) ==
  JObj([name |-> JStr(name), title |-> JStr(title), description |-> JStr(description),
        type |-> JStr(Txt), categories |-> JArr([i \in DOMAIN cats |-> JStr(cats[i])]),
        featured |-> JBool(featured), url |-> JStr(Txt)])
RawCategory == JObj([title |-> JStr(Txt), description |-> JStr(Txt)])
RawIndex(components, categories) ==
  [name |-> JStr(Txt), description |-> JStr(Txt), version |-> JStr(<<"1">>),
   framework |-> JStr(Txt), baseUrl |-> JStr(Txt),
   components |-> JArr(components), categories |-> JObj(categories)]
\* The end-to-end fixture: button (action, featured) and card (display).
IndexDocA ==
  JObj(RawIndex(<<RawSummary(Btn, Btn, Txt, <<"action">>, TRUE),
                  RawSummary(<<"c", "r", "d">>, <<"c", "r", "d">>, Txt, <<"display">>, FALSE)>>,
                [action |-> RawCategory, display |-> RawCategory]))
\* A later edition of the index, with the optional meta block and a key zod strips.
IndexDocB ==
  JObj(RawIndex(<<RawSummary(Btn, Btn, Txt, <<"action">>, TRUE)>>,
                [action |-> RawCategory])
       @@ [meta |-> JObj([lastUpdated |-> JStr(<<"2">>), totalComponents |-> JNum(<<"1">>),
                          maintainer |-> JStr(Txt)]),
           extra |-> JStr(Txt)])
\* An index whose component carries a string where a boolean is required.
IndexDocBadFeatured ==
  JObj(RawIndex(<<JObj([name |-> JStr(Btn), title |-> JStr(Btn), description |-> JStr(Txt),
                        type |-> JStr(Txt), categories |-> JArr(<<>>),
                        featured |-> JStr(<<"y">>), url |-> JStr(Txt)])>>,
                [action |-> RawCategory]))
RawComponent(files) ==
  [name |-> JStr(Btn), description |-> JStr(Txt), version |-> JStr(<<"1">>),
   files |-> JArr(files)]
ButtonDoc ==
  JObj(RawComponent(<<JObj([path |-> JStr(<<"b", ".", "t", "s", "x">>),
                            content |-> JStr(Txt)])>>))
\* A later edition: a file known by name only, dependencies as a record.
ButtonDocV2 ==
  JObj(RawComponent(<<JObj([name |-> JStr(<<"b", ".", "c", "s", "s">>),
                            content |-> JStr(Txt)])>>)
       @@ [dependencies |-> JObj([react |-> JStr(<<"1", "8">>)]),
           brutalistFeatures |-> JObj([hasShadows |-> JBool(TRUE),
                                       theme |-> JStr(<<"classic">>)])])
\* A component one of whose files has neither path nor name.
OrphanFileDoc ==
  JObj(RawComponent(<<JObj([path |-> JStr(<<"b", ".", "t", "s", "x">>),
                            content |-> JStr(Txt)]),
                      JObj([content |-> JStr(Txt)])>>))

\* What axios.get settles with: a 2xx response carrying a body, or an AxiosError
\* (with a response and its status, or without one: timeout, DNS, refused).
Resolved(body) == [ok |-> TRUE, data |-> body]
Rejected(hasResponse, status, message) ==
  [ok |-> FALSE, isAxiosError |-> TRUE, hasResponse |-> hasResponse, status |-> status,
   message |-> message]
\* (HtmlPage is not JSON at all: an HTML page served with status 200.)
Settlements ==
  LET HtmlPage == JStr(<<"<", "h", "t", "m", "l", ">">>)
      Bodies == {IndexDocA, IndexDocB, IndexDocBadFeatured, ButtonDoc, ButtonDocV2,
                 OrphanFileDoc, HtmlPage}
  IN {Resolved(b) : b \in Bodies}
    \cup {Rejected(TRUE, 404, "Request failed with status code 404"),
          Rejected(TRUE, 500, "Request failed with status code 500"),
          Rejected(FALSE, 0, "timeout of 0ms exceeded")}

\* ------------------------------------------------------------------ cache
CACHE_TTL == 5 * 60 * 1000

\* Variants of the cache with a plausible slip, used to test the properties below.
getFromCache_Inclusive(c, key, t) ==
  IF key \in DOMAIN c /\ t - c[key].timestamp <= CACHE_TTL THEN <<c[key].data>> ELSE <<>>
getFromCache_Flipped(c, key, t) ==
  IF key \in DOMAIN c /\ t - c[key].timestamp > CACHE_TTL THEN <<c[key].data>> ELSE <<>>
setCache_KeepFirst(c, key, data, t) ==
  [k \in DOMAIN c \cup {key} |->
     IF k \in DOMAIN c THEN c[k] ELSE [data |-> data, timestamp |-> t]]

\* cache.get(key) && Date.now() - cached.timestamp < CACHE_TTL ? cached.data : null
\* (<<>> is null, <<d>> the data).
getFromCache(c, key, t) ==
  IF key \in DOMAIN c /\ t - c[key].timestamp < CACHE_TTL THEN <<c[key].data>> ELSE <<>>

\* A Map that drops, on every write, the entries that have expired.
setCache_Evicting(c, key, data, t) ==
  [k \in {x \in DOMAIN c : t - c[x].timestamp < CACHE_TTL} \cup {key} |->
     IF k = key THEN [data |-> data, timestamp |-> t] ELSE c[k]]

\* cache.set(key, { data, timestamp: Date.now() })
setCache(c, key, data, t) ==
  [k \in DOMAIN c \cup {key} |-> IF k = key THEN [data |-> data, timestamp |-> t] ELSE c[k]]

\* ------------------------------------------------------- registry client
ProductionRegistry == "https://brutalist.precast.dev/registry/react"
DevelopmentRegistry == "http://localhost:3000/registry/react"
\* const REGISTRY_BASE_URL, evaluated when utils/api.ts is loaded.
RegistryBaseUrlAtLoad(e) ==
  IF e.NODE_ENV = "production" THEN ProductionRegistry ELSE DevelopmentRegistry

\* A key that leaves the component's name out.
ComponentCacheKey_NoName(componentName) == "component"

IndexCacheKey == "registry-index"
ComponentCacheKey(componentName) == "component-" \o componentName
IndexUrl(base) == [base |-> base, path |-> "/index.json"]
ComponentUrl(base, componentName) == [base |-> base, path |-> "/" \o componentName \o ".json"]

\* Variants of the registry client with a plausible slip.
fetchRegistryIndexSettle_AllFetch(resp) ==
  IF resp.ok /\ RegistryIndexSchema(resp.data)
    THEN [ok |-> TRUE, value |-> ParseRegistryIndex(resp.data)]
    ELSE [ok |-> FALSE,
          error |-> [prefix |-> "Failed to fetch registry index: ",
                     detail |-> IF resp.ok THEN "invalid" ELSE resp.message]]
fetchComponentSettle_No404(componentName, resp) ==
  IF resp.ok
    THEN IF ComponentSchema(resp.data)
           THEN [ok |-> TRUE, value |-> ParseComponent(resp.data)]
           ELSE [ok |-> FALSE,
                 error |-> [prefix |-> "Failed to parse component '", name |-> componentName,
                            suffix |-> "': ", issues |-> ComponentIssues(resp.data)]]
    ELSE [ok |-> FALSE,
          error |-> [prefix |-> "Failed to fetch component '", name |-> componentName,
                     suffix |-> "': ", detail |-> resp.message]]

\* fetchRegistryIndex after `await axios.get`: the rest of the try block, or the catch.
fetchRegistryIndexSettle(resp) ==
  IF resp.ok
    THEN IF RegistryIndexSchema(resp.data)
           THEN [ok |-> TRUE, value |-> ParseRegistryIndex(resp.data)]
           ELSE [ok |-> FALSE,
                 error |-> [prefix |-> "Failed to parse registry index: ",
                            issues |-> RegistryIndexIssues(resp.data)]]
    ELSE [ok |-> FALSE,
          error |-> [prefix |-> "Failed to fetch registry index: ", detail |-> resp.message]]

\* fetchComponent after `await axios.get`: the rest of the try block, or the catch.
fetchComponentSettle(componentName, resp) ==
  IF resp.ok
    THEN IF ComponentSchema(resp.data)
           THEN [ok |-> TRUE, value |-> ParseComponent(resp.data)]
           ELSE [ok |-> FALSE,
                 error |-> [prefix |-> "Failed to parse component '", name |-> componentName,
                            suffix |-> "': ", issues |-> ComponentIssues(resp.data)]]
    ELSE IF resp.hasResponse /\ resp.status = 404
           THEN [ok |-> FALSE,
                 error |-> [prefix |-> "Component '", name |-> componentName,
                            suffix |-> "' not found in registry"]]
           ELSE [ok |-> FALSE,
                 error |-> [prefix |-> "Failed to fetch component '", name |-> componentName,
                            suffix |-> "': ", detail |-> resp.message]]

\* ------------------------------------------------------------ query layer
UpperCase == <<"A", "B", "C", "D", "E", "F", "G", "H", "I", "J", "K", "L", "M",
               "N", "O", "P", "Q", "R", "S", "T", "U", "V", "W", "X", "Y", "Z">>
LowerCase == <<"a", "b", "c", "d", "e", "f", "g", "h", "i", "j", "k", "l", "m",
               "n", "o", "p", "q", "r", "s", "t", "u", "v", "w", "x", "y", "z">>
WhiteSpace == {" ", "\t", "\n"}
LowerChar(ch) ==
  IF \E i \in DOMAIN UpperCase : UpperCase[i] = ch
    THEN LowerCase[CHOOSE i \in DOMAIN UpperCase : UpperCase[i] = ch]
    ELSE ch
\* String.prototype.toLowerCase, includes and trim, on sequences of characters.
toLowerCase(str) == [i \in DOMAIN str |-> LowerChar(str[i])]
includes(str, sub) ==
  \E k \in 0..(Len(str) - Len(sub)) : SubSeq(str, k + 1, k + Len(sub)) = sub
RECURSIVE trimStart(_)
trimStart(str) ==
  IF str # <<>> /\ Head(str) \in WhiteSpace THEN trimStart(Tail(str)) ELSE str
RECURSIVE trimEnd(_)
trimEnd(str) ==
  IF str # <<>> /\ str[Len(str)] \in WhiteSpace
    THEN trimEnd(SubSeq(str, 1, Len(str) - 1)) ELSE str
trim(str) == trimEnd(trimStart(str))
\* Array.prototype.includes on a list of category keys.
listIncludes(list, x) == \E i \in DOMAIN list : list[i] = x

\* Variants of the query layer with a plausible slip.
searchComponents_NoTrim(index, query, category, featured) ==
  LET InCategory(c) == listIncludes(c.categories, category[1])
      IsFeatured(c) == c.featured = featured[1]
      Matches(c) ==
        \/ includes(toLowerCase(c.name), toLowerCase(query))
        \/ includes(toLowerCase(c.title), toLowerCase(query))
        \/ includes(toLowerCase(c.description), toLowerCase(query))
      r1 == IF category # <<>> /\ category[1] # ""
              THEN SelectSeq(index.components, InCategory) ELSE index.components
      r2 == IF featured # <<>> THEN SelectSeq(r1, IsFeatured) ELSE r1
      r3 == IF query # <<>> THEN SelectSeq(r2, Matches) ELSE r2
  IN [results |-> r3, total |-> Len(r3), query |-> query,
      filters |-> [category |-> category, featured |-> featured]]
searchComponents_CaseSensitive(index, query, category, featured) ==
  LET InCategory(c) == listIncludes(c.categories, category[1])
      IsFeatured(c) == c.featured = featured[1]
      Matches(c) ==
        \/ includes(c.name, query) \/ includes(c.title, query)
        \/ includes(c.description, query)
      r1 == IF category # <<>> /\ category[1] # ""
              THEN SelectSeq(index.components, InCategory) ELSE index.components
      r2 == IF featured # <<>> THEN SelectSeq(r1, IsFeatured) ELSE r1
      r3 == IF trim(query) # <<>> THEN SelectSeq(r2, Matches) ELSE r2
  IN [results |-> r3, total |-> Len(r3), query |-> query,
      filters |-> [category |-> category, featured |-> featured]]

\* searchComponents on the fetched index; an optional argument is <<>> or <<value>>.
searchComponents(index, query, category, featured) ==
  LET InCategory(c) == listIncludes(c.categories, category[1])
      IsFeatured(c) == c.featured = featured[1]
      queryLower == toLowerCase(query)
      Matches(c) ==
        \/ includes(toLowerCase(c.name), queryLower)
        \/ includes(toLowerCase(c.title), queryLower)
        \/ includes(toLowerCase(c.description), queryLower)
      r1 == IF category # <<>> /\ category[1] # ""
              THEN SelectSeq(index.components, InCategory) ELSE index.components
      r2 == IF featured # <<>> THEN SelectSeq(r1, IsFeatured) ELSE r1
      r3 == IF trim(query) # <<>> THEN SelectSeq(r2, Matches) ELSE r2
  IN [results |-> r3, total |-> Len(r3), query |-> query,
      filters |-> [category |-> category, featured |-> featured]]

\* Keys every plain object inherits from Object.prototype.
ObjectPrototypeKeys ==
  {"constructor", "toString", "valueOf", "hasOwnProperty", "isPrototypeOf",
   "propertyIsEnumerable", "toLocaleString", "__proto__"}
\* registryIndex.categories[category] || null: <<>> is null; an inherited member
\* of the plain object is truthy too.
categoryLookup(categories, category) ==
  IF category \in DOMAIN categories THEN <<categories[category]>>
  ELSE IF category \in ObjectPrototypeKeys THEN <<[inherited |-> category]>>
  ELSE <<>>
getComponentsByCategory(index, category) ==
  LET InCategory(c) == listIncludes(c.categories, category)
      components == SelectSeq(index.components, InCategory)
  IN [category |-> category,
      categoryInfo |-> categoryLookup(index.categories, category),
      components |-> components,
      total |-> Len(components)]

getFeaturedComponents_Unfeatured(index) ==
  LET IsFeatured(c) == ~c.featured
      featuredComponents == SelectSeq(index.components, IsFeatured)
  IN [components |-> featuredComponents, total |-> Len(featuredComponents)]
getFeaturedComponents_TotalOfIndex(index) ==
  LET IsFeatured(c) == c.featured
  IN [components |-> SelectSeq(index.components, IsFeatured),
      total |-> Len(index.components)]
getFeaturedComponents(index) ==
  LET IsFeatured(c) == c.featured
      featuredComponents == SelectSeq(index.components, IsFeatured)
  IN [components |-> featuredComponents, total |-> Len(featuredComponents)]

\* How often the components of the index list the category key.
RECURSIVE Listings(_, _)
Listings(components, key) ==
  LET Occurrences(list) == Cardinality({i \in DOMAIN list : list[i] = key})
  IN IF components = <<>> THEN 0
     ELSE Occurrences(Head(components).categories) + Listings(Tail(components), key)

\* categoryCounts[key] || 0 after the forEach over every listing, categoryCounts
\* being a plain object: a number; for a key Object.prototype has, the inherited
\* function when nothing lists it, and the text of `function + 1 + 1...` otherwise.
categoryCount(components, key) ==
  LET n == Listings(components, key)
  IN IF key = "__proto__" THEN [object |-> "Object.prototype"]
     ELSE IF key \in ObjectPrototypeKeys
       THEN IF n = 0 THEN [function |-> key]
            ELSE [string |-> [function |-> key, ones |-> n]]
     ELSE [number |-> n]

getCategories(index) ==
  [categories |->
     [k \in DOMAIN index.categories |->
        [title |-> index.categories[k].title,
         description |-> index.categories[k].description,
         count |-> categoryCount(index.components, k)]],
   total |-> Cardinality(DOMAIN index.categories)]

getRegistryInfo_MetaPresence(index) ==
  LET IsFeatured(c) == c.featured
  IN [registry |-> index,
      stats |-> [totalComponents |-> Len(index.components),
                 featuredComponents |-> Len(SelectSeq(index.components, IsFeatured)),
                 categoriesCount |-> Cardinality(DOMAIN index.categories),
                 lastUpdated |-> IF index.meta # <<>>
                                   THEN <<index.meta[1].lastUpdated>> ELSE <<>>]]
\* stats.lastUpdated is <<>> for null: meta?.lastUpdated || null.
getRegistryInfo(index) ==
  LET IsFeatured(c) == c.featured
      featuredCount == Len(SelectSeq(index.components, IsFeatured))
  IN [registry |-> index,
      stats |-> [totalComponents |-> Len(index.components),
                 featuredComponents |-> featuredCount,
                 categoriesCount |-> Cardinality(DOMAIN index.categories),
                 lastUpdated |-> IF index.meta # <<>> /\ index.meta[1].lastUpdated # <<>>
                                   THEN <<index.meta[1].lastUpdated>> ELSE <<>>]]

\* -------------------------------------------------- documentation extractor
\* A path is the directory, the characters of the file's stem, and the suffix.
\* An entry of the file system is [kind |-> "unreadable"] (existsSync is true,
\* readFileSync throws) or [kind |-> "file", content |-> c]; c is <<>> for the empty
\* string and otherwise <<markup>>, markup recording what the patterns of
\* extractTitle, extractDescription, extractMainContent, extractExamples and
\* extractAccessibility find in the text.
UpperChar(ch) ==
  IF \E i \in DOMAIN LowerCase : LowerCase[i] = ch
    THEN UpperCase[CHOOSE i \in DOMAIN LowerCase : LowerCase[i] = ch]
    ELSE ch
\* componentName.charAt(0).toUpperCase() + componentName.slice(1)
Capitalize(name) == IF name = <<>> THEN <<>> ELSE <<UpperChar(name[1])>> \o Tail(name)
\* The eight locations tried in order: two built from the name, six fixed.
potentialPaths(name) ==
  LET ComponentsDir ==
        "/home/sacha/repositories/brutalist-components/apps/website/src/pages/docs/components/"
      DocsDir == "/home/sacha/repositories/brutalist-components/apps/website/src/pages/docs/"
  IN <<<<ComponentsDir>> \o Capitalize(name) \o <<"Page.tsx">>,
       <<ComponentsDir>> \o name \o <<".tsx">>,
       <<ComponentsDir, "B", "a", "r", "C", "h", "a", "r", "t", "Page.tsx">>,
       <<ComponentsDir, "L", "i", "n", "e", "C", "h", "a", "r", "t", "Page.tsx">>,
       <<ComponentsDir, "T", "a", "b", "l", "e", "O", "f", "C", "o", "n", "t", "e", "n", "t",
         "s", "Page.tsx">>,
       <<DocsDir, "S", "h", "a", "p", "e", "s", "Page.tsx">>,
       <<ComponentsDir, "a", "s", "p", "e", "c", "t", "-", "r", "a", "t", "i", "o", ".tsx">>,
       <<ComponentsDir, "p", "a", "g", "i", "n", "a", "t", "i", "o", "n", ".tsx">>>>
\* The special-case table, as the pairs of a name and its location: the six fixed
\* locations of potentialPaths.  (A name that only Object.prototype has makes
\* readFileSync throw, which is caught: the same as no special case.)
specialCases ==
  LET fixed == potentialPaths(<<>>)
  IN {<<<<"b", "a", "r", "-", "c", "h", "a", "r", "t">>, fixed[3]>>,
      <<<<"l", "i", "n", "e", "-", "c", "h", "a", "r", "t">>, fixed[4]>>,
      <<<<"t", "a", "b", "l", "e", "-", "o", "f", "-", "c", "o", "n", "t", "e", "n", "t", "s">>,
        fixed[5]>>,
      <<<<"s", "h", "a", "p", "e", "s">>, fixed[6]>>,
      <<<<"p", "a", "g", "i", "n", "a", "t", "i", "o", "n">>, fixed[8]>>,
      <<<<"a", "s", "p", "e", "c", "t", "-", "r", "a", "t", "i", "o">>, fixed[7]>>}

existsSync(files, path) == path \in DOMAIN files
\* readFileSync: <<content>>, or <<>> when it throws.
readFileSync(files, path) ==
  IF path \in DOMAIN files /\ files[path].kind = "file" THEN <<files[path].content>> ELSE <<>>

EmptyAccessibility ==
  [keyboardSupport |-> <<>>, ariaAttributes |-> <<>>, bestPractices |-> <<>>]
\* The record returned when no content was found.
DefaultDocumentation(name) ==
  [title |-> Capitalize(name),
   description |-> <<"Documentation for ", name, " component">>,
   content |-> <<"# ", Capitalize(name),
                 " Component\n\nDocumentation file not found. Please check the component's source code for implementation details.">>,
   examples |-> <<>>,
   accessibility |-> EmptyAccessibility]
\* The record built from the markup of the file found at foundPath.  (apiReference
\* is always undefined and is left out of every response.)
BuiltDocumentation(name, markup, foundPath) ==
  [title |-> IF markup.h1 # <<>> THEN markup.h1 ELSE Capitalize(name),
   description |-> IF markup.description # <<>> THEN markup.description
                   ELSE <<name, " component">>,
   content |-> IF markup.main # <<>> THEN markup.main
               ELSE <<"Documentation loaded from: ", foundPath>>,
   examples |-> markup.examples,
   accessibility |-> IF markup.accessibility # <<>> THEN markup.accessibility[1]
                     ELSE EmptyAccessibility]

\* The first of the paths from position k on that exists and can be read: <<path>>,
\* or <<>>.  The loop breaks at the first file it has read, whatever its content.
RECURSIVE firstReadable(_, _, _)
firstReadable(files, paths, k) ==
  IF k > Len(paths) THEN <<>>
  ELSE IF existsSync(files, paths[k]) /\ readFileSync(files, paths[k]) # <<>>
    THEN <<paths[k]>>
  ELSE firstReadable(files, paths, k + 1)
\* The content the extractor settles on, with the path it came from: <<>> when it
\* is left with the empty string.
foundContent(files, name) ==
  LET IsSpecialCase == \E sc \in specialCases : sc[1] = name
      SpecialCasePath == (CHOOSE sc \in specialCases : sc[1] = name)[2]
      special == IF IsSpecialCase THEN readFileSync(files, SpecialCasePath) ELSE <<>>
      fromLoop == firstReadable(files, potentialPaths(name), 1)
  IN IF special # <<>> /\ special[1] # <<>>
       THEN <<[markup |-> special[1][1], foundPath |-> SpecialCasePath]>>
     ELSE IF fromLoop # <<>> /\ readFileSync(files, fromLoop[1])[1] # <<>>
       THEN <<[markup |-> readFileSync(files, fromLoop[1])[1][1], foundPath |-> fromLoop[1]]>>
     ELSE <<>>

\* Variants of the extractor with a plausible slip.
extractComponentDocumentation_Throwing(files, name) ==
  LET found == foundContent(files, name)
  IN IF found = <<>>
       THEN [ok |-> FALSE,
             error |-> [prefix |-> "Failed to extract documentation for ", name |-> name,
                        suffix |-> ": ", detail |-> "ENOENT"]]
       ELSE [ok |-> TRUE,
             value |-> BuiltDocumentation(name, found[1].markup, found[1].foundPath)]
\* extractComponentDocumentation on the file system `files`: it returns.
extractComponentDocumentation(files, name) ==
  LET found == foundContent(files, name)
  IN [ok |-> TRUE,
      value |-> IF found = <<>> THEN DefaultDocumentation(name)
                ELSE BuiltDocumentation(name, found[1].markup, found[1].foundPath)]

\* ------------------------------------------------- documentation catalog
\* Object.keys(DOCS_STRUCTURE), in insertion order.
DocsSections == <<"guides", "components", "api">>
DOCS_STRUCTURE ==
  [   guides |->
     <<<<"i", "n", "t", "r", "o", "d", "u", "c", "t", "i", "o", "n">>,
       <<"i", "n", "s", "t", "a", "l", "l", "a", "t", "i", "o", "n">>,
       <<"t", "y", "p", "e", "s", "c", "r", "i", "p", "t">>,
       <<"c", "l", "i">>,
       <<"d", "e", "s", "i", "g", "n", "-", "p", "r", "i", "n", "c", "i", "p", "l", "e", "s">>,
       <<"c", "o", "l", "o", "r", "s">>,
       <<"t", "y", "p", "o", "g", "r", "a", "p", "h", "y">>,
       <<"s", "p", "a", "c", "i", "n", "g">>,
       <<"a", "n", "i", "m", "a", "t", "i", "o", "n", "s">>,
       <<"s", "h", "a", "p", "e", "s">>,
       <<"a", "c", "c", "e", "s", "s", "i", "b", "i", "l", "i", "t", "y">>,
       <<"t", "h", "e", "m", "i", "n", "g">>,
       <<"c", "h", "a", "n", "g", "e", "l", "o", "g">>>>,
   components |->
     <<<<"a", "c", "c", "o", "r", "d", "i", "o", "n">>,
       <<"a", "l", "e", "r", "t">>,
       <<"a", "v", "a", "t", "a", "r">>,
       <<"b", "a", "d", "g", "e">>,
       <<"b", "a", "r", "-", "c", "h", "a", "r", "t">>,
       <<"l", "i", "n", "e", "-", "c", "h", "a", "r", "t">>,
       <<"p", "i", "e", "-", "c", "h", "a", "r", "t">>,
       <<"a", "r", "e", "a", "-", "c", "h", "a", "r", "t">>,
       <<"a", "s", "p", "e", "c", "t", "-", "r", "a", "t", "i", "o">>,
       <<"b", "r", "e", "a", "d", "c", "r", "u", "m", "b">>,
       <<"b", "u", "t", "t", "o", "n">>,
       <<"c", "a", "r", "d">>,
       <<"c", "h", "e", "c", "k", "b", "o", "x">>,
       <<"c", "o", "m", "b", "o", "b", "o", "x">>,
       <<"c", "o", "m", "m", "a", "n", "d">>,
       <<"c", "o", "n", "t", "a", "i", "n", "e", "r">>,
       <<"c", "o", "n", "t", "e", "x", "t", "-", "m", "e", "n", "u">>,
       <<"d", "i", "a", "l", "o", "g">>,
       <<"d", "r", "a", "w", "e", "r">>,
       <<"d", "r", "o", "p", "d", "o", "w", "n">>,
       <<"h", "o", "v", "e", "r", "-", "c", "a", "r", "d">>,
       <<"i", "n", "p", "u", "t">>,
       <<"i", "n", "p", "u", "t", "-", "o", "t", "p">>,
       <<"n", "a", "v", "i", "g", "a", "t", "i", "o", "n">>,
       <<"p", "a", "g", "i", "n", "a", "t", "i", "o", "n">>,
       <<"p", "o", "p", "o", "v", "e", "r">>,
       <<"p", "r", "o", "g", "r", "e", "s", "s">>,
       <<"r", "a", "d", "i", "o">>,
       <<"s", "e", "l", "e", "c", "t">>,
       <<"s", "e", "p", "a", "r", "a", "t", "o", "r">>,
       <<"s", "i", "d", "e", "b", "a", "r">>,
       <<"s", "k", "e", "l", "e", "t", "o", "n">>,
       <<"s", "l", "i", "d", "e", "r">>,
       <<"s", "p", "i", "n", "n", "e", "r">>,
       <<"s", "t", "a", "c", "k">>,
       <<"s", "w", "i", "t", "c", "h">>,
       <<"t", "o", "g", "g", "l", "e">>,
       <<"t", "y", "p", "o", "g", "r", "a", "p", "h", "y">>,
       <<"t", "a", "b", "l", "e">>,
       <<"t", "a", "b", "l", "e", "-", "o", "f", "-", "c", "o", "n", "t", "e", "n", "t", "s">>,
       <<"t", "a", "b", "s">>,
       <<"t", "e", "x", "t", "a", "r", "e", "a">>,
       <<"t", "o", "a", "s", "t">>,
       <<"t", "o", "o", "l", "t", "i", "p">>>>,
   api |->
     <<<<"t", "y", "p", "e", "s">>,
       <<"r", "e", "g", "i", "s", "t", "r", "y">>>>]
\* item.replace(/-/g, ' ').replace(/\b\w/g, l => l.toUpperCase())
TitleCase(item) ==
  LET IsWordChar(ch) ==
        \/ \E i \in DOMAIN LowerCase : LowerCase[i] = ch \/ UpperCase[i] = ch
        \/ ch \in {"0", "1", "2", "3", "4", "5", "6", "7", "8", "9", "_"}
      Spaced == [i \in DOMAIN item |-> IF item[i] = "-" THEN " " ELSE item[i]]
  IN [i \in DOMAIN item |->
        IF IsWordChar(Spaced[i]) /\ (i = 1 \/ ~IsWordChar(Spaced[i - 1]))
          THEN UpperChar(Spaced[i]) ELSE Spaced[i]]

\* The matches within one section, in the order of its items.
RECURSIVE sectionMatches(_, _, _, _)
sectionMatches(sectionName, items, searchTerm, k) ==
  IF k > Len(items) THEN <<>>
  ELSE (IF includes(toLowerCase(items[k]), searchTerm)
          THEN << <<sectionName, "/", items[k]>> >> ELSE <<>>)
       \o sectionMatches(sectionName, items, searchTerm, k + 1)
RECURSIVE matchesFrom(_, _, _)
matchesFrom(sectionsToSearch, searchTerm, k) ==
  IF k > Len(sectionsToSearch) THEN <<>>
  ELSE sectionMatches(sectionsToSearch[k], DOCS_STRUCTURE[sectionsToSearch[k]], searchTerm, 1)
       \o matchesFrom(sectionsToSearch, searchTerm, k + 1)
\* searchDocumentation(query, section?), section being <<>> or <<name>>: the list
\* of matches, or the TypeError of items.forEach when DOCS_STRUCTURE has no array
\* under the section name.
searchDocumentation(query, section) ==
  LET searchTerm == toLowerCase(query)
      sectionsToSearch == IF section # <<>> /\ section[1] # "" THEN section
                          ELSE DocsSections
  IN IF \A k \in DOMAIN sectionsToSearch : sectionsToSearch[k] \in DOMAIN DOCS_STRUCTURE
       THEN [ok |-> TRUE, value |-> matchesFrom(sectionsToSearch, searchTerm, 1)]
       ELSE [ok |-> FALSE,
             error |-> [detail |-> IF sectionsToSearch[1] \in ObjectPrototypeKeys
                          THEN "items.forEach is not a function"
                          ELSE "Cannot read properties of undefined (reading 'forEach')"]]
getAllDocumentationSections == DOCS_STRUCTURE

\* ----------------------------------------------------------- tool handlers
\* The base URL the handlers print in install commands.
HandlerBaseUrl(e) ==
  IF e.NODE_ENV = "production" THEN "https://brutalist.precast.dev" ELSE "http://localhost:3000"

\* content is the value the JSON text of the response denotes.
createSuccessResponse(data) == [isError |-> FALSE, content |-> data]
\* JSON.stringify of an object with optional members: an undefined member is left out.
stringifyOptionals(rec) ==
  [k \in {m \in DOMAIN rec : rec[m] # <<>>} |-> rec[k][1]]
\* JSON.stringify of the search result: filters loses its undefined members.
stringifySearchResult(r) == [r EXCEPT !.filters = stringifyOptionals(r.filters)]
\* JSON.stringify of the category result: null is written as null, a function
\* member is left out.
stringifyCategoryResult(r) ==
  IF r.categoryInfo = <<>> THEN [r EXCEPT !.categoryInfo = Null]
  ELSE IF "inherited" \in DOMAIN r.categoryInfo[1]
    THEN [k \in DOMAIN r \ {"categoryInfo"} |-> r[k]]
  ELSE [r EXCEPT !.categoryInfo = r.categoryInfo[1]]
\* JSON.stringify of the categories result: a count that is a function is left out.
stringifyCategories(r) ==
  [r EXCEPT !.categories =
     [k \in DOMAIN r.categories |->
        IF "function" \in DOMAIN r.categories[k].count
          THEN [title |-> r.categories[k].title,
                description |-> r.categories[k].description]
          ELSE r.categories[k]]]
\* JSON.stringify of the registry info: an undefined meta is left out.
stringifyRegistryInfo(r) ==
  [r EXCEPT !.registry =
     IF r.registry.meta = <<>>
       THEN [k \in DOMAIN r.registry \ {"meta"} |-> r.registry[k]]
       ELSE [r.registry EXCEPT !.meta = r.registry.meta[1]]]
\* A variant of createErrorResponse with a plausible slip.
createErrorResponse_NoMessage(prefix, error) ==
  [isError |-> TRUE, isMcpError |-> TRUE, code |-> "InternalError", prefix |-> prefix,
   inner |-> <<>>]
\* createErrorResponse: throws McpError(code = InternalError, message).
createErrorResponse(prefix, error) ==
  [isError |-> TRUE, isMcpError |-> TRUE, code |-> "InternalError", prefix |-> prefix,
   inner |-> error]
\* The catch of the CallToolRequestSchema handler: an McpError is rethrown as it is,
\* anything else is wrapped in an internal error.
callToolCatch(thrown) ==
  IF thrown.isMcpError THEN thrown
  ELSE [isError |-> TRUE, isMcpError |-> TRUE, code |-> "InternalError",
        prefix |-> "Error executing tool: ", inner |-> thrown]

\* String.prototype.endsWith
endsWith(str, suffix) ==
  Len(suffix) <= Len(str) /\ SubSeq(str, Len(str) - Len(suffix) + 1, Len(str)) = suffix
\* file.path || file.name || ''
filePathOf(file) ==
  IF "path" \in DOMAIN file /\ file.path # <<>> THEN file.path
  ELSE IF "name" \in DOMAIN file /\ file.name # <<>> THEN file.name
  ELSE <<>>
\* The data of get_component_examples: the example files, or else the first .tsx
\* file that is no example, if there is one.
componentExamples(component, componentName, e) ==
  LET IsExample(file) ==
        \/ includes(filePathOf(file), <<"e", "x", "a", "m", "p", "l", "e">>)
        \/ includes(filePathOf(file), <<"d", "e", "m", "o">>)
        \/ includes(toLowerCase(filePathOf(file)), <<"u", "s", "a", "g", "e">>)
      IsMain(file) ==
        /\ endsWith(filePathOf(file), <<".", "t", "s", "x">>)
        /\ ~includes(filePathOf(file), <<"e", "x", "a", "m", "p", "l", "e">>)
      NotSpace(ch) == ch \notin WhiteSpace
      files == component.files.files
      examples == SelectSeq(files, IsExample)
      mains == SelectSeq(files, IsMain)
      shown == IF "title" \in DOMAIN component /\ component.title.str # <<>>
                 THEN component.title.str ELSE component.name.str
  IN [componentName |-> componentName,
      examples |-> IF Len(examples) > 0 THEN examples
                   ELSE IF mains # <<>> THEN <<mains[1]>> ELSE <<>>,
      installCommand |-> <<"precast-ui add \"", HandlerBaseUrl(e), "/registry/react/",
                           componentName, "\"">>,
      usage |-> <<"import { ", SelectSeq(shown, NotSpace),
                  " } from '@brutalist-ui/components'">>]
\* The data of get_component_styles, as JSON.stringify leaves it: an undefined
\* brutalistFeatures is left out; dependencies given as a record become its keys.
componentStyles(component, componentName) ==
  LET IsStyle(file) ==
        \/ endsWith(filePathOf(file), <<".", "c", "s", "s">>)
        \/ endsWith(filePathOf(file), <<".", "m", "o", "d", "u", "l", "e", ".", "c", "s", "s">>)
        \/ endsWith(filePathOf(file), <<".", "s", "c", "s", "s">>)
      dependencies ==
        IF "dependencies" \notin DOMAIN component THEN [arr |-> <<>>]
        ELSE IF "arr" \in DOMAIN component.dependencies THEN component.dependencies
        ELSE [keys |-> DOMAIN component.dependencies.rec]
  IN (IF "brutalistFeatures" \in DOMAIN component
        THEN [brutalistFeatures |-> component.brutalistFeatures.obj] ELSE <<>>)
     @@ [componentName |-> componentName,
         styleFiles |-> SelectSeq(component.files.files, IsStyle),
         dependencies |-> dependencies]

\* Which document a tool reads through the registry client.
ToolFetches(tool) ==
  CASE tool \in {"list_components", "search_components", "get_components_by_category",
                 "get_featured_components", "get_categories", "get_registry_info"}
         -> "index"
    [] tool \in {"get_component", "get_component_examples", "get_component_styles",
                 "get_install_command"}
         -> "component"
    [] tool \in {"get_component_documentation", "get_accessibility_info"} -> "docs"
    [] tool \in {"search_documentation", "get_documentation_sections"} -> "catalog"
    [] tool \in {"brutalist-ui://registry/overview", "brutalist-ui://registry/categories",
                 "brutalist-ui://registry/featured"}
         -> "index"
    [] OTHER -> "nothing"

ToolErrorPrefix(tool) ==
  CASE tool = "list_components" -> "Failed to list components: "
    [] tool = "get_component" -> "Failed to get component: "
    [] tool = "get_component_examples" -> "Failed to get component examples: "
    [] tool = "get_component_styles" -> "Failed to get component styles: "
    [] tool = "get_install_command" -> "Failed to get install command: "
    [] tool = "search_components" -> "Failed to search components: "
    [] tool = "get_components_by_category" -> "Failed to get components by category: "
    [] tool = "get_featured_components" -> "Failed to get featured components: "
    [] tool = "get_categories" -> "Failed to get categories: "
    [] tool = "get_registry_info" -> "Failed to get registry info: "
    [] tool = "get_component_documentation" -> "Failed to get component documentation: "
    [] tool = "get_accessibility_info" -> "Failed to get accessibility info: "
    [] tool = "search_documentation" -> "Failed to search documentation: "
    [] tool = "get_documentation_sections" -> "Failed to get documentation sections: "

\* The handler's code after its await returned `value`.
ToolSuccess(tool, params, value, e) ==
  CASE tool = "list_components" ->
         createSuccessResponse([components |-> value.components,
                                total |-> Len(value.components),
                                framework |-> value.framework,
                                version |-> value.version])
    [] tool = "get_component" ->
         createSuccessResponse(
           [component |-> value,
            installCommand |-> <<"precast-ui add \"", HandlerBaseUrl(e), "/registry/react/",
                                 params.componentName, "\"">>,
            registryUrl |-> <<HandlerBaseUrl(e), "/registry/react/",
                              params.componentName, ".json">>])
    [] tool = "get_component_examples" ->
         createSuccessResponse(componentExamples(value, params.componentName, e))
    [] tool = "get_component_styles" ->
         createSuccessResponse(componentStyles(value, params.componentName))
    [] tool = "get_install_command" ->
         createSuccessResponse(
           [componentName |-> params.componentName,
            installCommand |-> <<"precast-ui add \"", HandlerBaseUrl(e), "/registry/react/",
                                 params.componentName, "\"">>,
            npmInstall |-> "npm install -g precast-ui",
            usage |-> <<"# Install the precast-ui CLI globally\nnpm install -g precast-ui\n\n# Install the component\nprecast-ui add \"",
                        HandlerBaseUrl(e), "/registry/react/", params.componentName,
                        "\"\n\n# Use in your React app\nimport { ComponentName } from '@brutalist-ui/components'">>])
    [] tool = "search_components" ->
         createSuccessResponse(stringifySearchResult(
           searchComponents(value, params.query, params.category, params.featured)))
    [] tool = "get_components_by_category" ->
         createSuccessResponse(
           stringifyCategoryResult(getComponentsByCategory(value, params.category)))
    [] tool = "get_featured_components" ->
         createSuccessResponse(getFeaturedComponents(value))
    [] tool = "get_categories" ->
         createSuccessResponse(stringifyCategories(getCategories(value)))
    [] tool = "get_registry_info" ->
         createSuccessResponse(stringifyRegistryInfo(getRegistryInfo(value)))
    [] tool = "get_component_documentation" ->
         createSuccessResponse(
           [componentName |-> params.componentName,
            documentation |-> value,
            documentationUrl |-> <<HandlerBaseUrl(e), "/docs/components/",
                                   params.componentName>>])
    [] tool = "get_accessibility_info" ->
         createSuccessResponse(
           [componentName |-> params.componentName,
            accessibility |-> value.accessibility,
            documentationUrl |-> <<HandlerBaseUrl(e), "/docs/components/",
                                   params.componentName, "#accessibility">>])
    [] tool = "search_documentation" ->
         createSuccessResponse(
           stringifyOptionals([section |-> params.category])
             @@ [query |-> params.query,
                 results |-> [k \in DOMAIN value |->
                                [path |-> value[k],
                                 url |-> <<HandlerBaseUrl(e), "/docs/", value[k]>>,
                                 title |-> TitleCase(value[k][3])]]])
    [] tool = "get_documentation_sections" ->
         createSuccessResponse(
           [sections |->
              [s \in DOMAIN DocsSections |->
                 LET sectionName == DocsSections[s]
                     SectionChars ==
                       [guides |-> <<"g", "u", "i", "d", "e", "s">>,
                        components |-> <<"c", "o", "m", "p", "o", "n", "e", "n", "t", "s">>,
                        api |-> <<"a", "p", "i">>]
                 IN [name |-> sectionName,
                     title |-> Capitalize(SectionChars[sectionName]),
                     items |-> [k \in DOMAIN value[sectionName] |->
                                  [name |-> value[sectionName][k],
                                   title |-> TitleCase(value[sectionName][k]),
                                   url |-> <<HandlerBaseUrl(e), "/docs/",
                                             IF sectionName = "components"
                                               THEN "components/" ELSE "",
                                             value[sectionName][k]>>]]]]])

\* -------------------------------------------------------- request handlers
\* The names of the tools object: what the list-tools request answers with.
tools ==
  {"list_components", "get_component", "search_components", "get_component_examples",
   "get_component_styles", "get_categories", "get_components_by_category",
   "get_featured_components", "get_registry_info", "get_install_command"}
\* The own keys of the toolHandlers object.
toolHandlers ==
  tools \cup {"get_component_documentation", "search_documentation",
              "get_documentation_sections", "get_accessibility_info"}

\* A zod object schema is the list of its keys, each with the type it requires and
\* whether it may be missing.
ComponentNameParamSchema == <<[key |-> "componentName", type |-> "string", optional |-> FALSE]>>
SearchParamSchema ==
  <<[key |-> "query", type |-> "string", optional |-> FALSE],
    [key |-> "category", type |-> "string", optional |-> TRUE],
    [key |-> "featured", type |-> "boolean", optional |-> TRUE]>>
CategoryParamSchema == <<[key |-> "category", type |-> "string", optional |-> FALSE]>>
\* The issues schema.parse raises on node n, from key i on, in the order of the keys.
RECURSIVE zodIssues(_, _, _)
zodIssues(schema, n, i) ==
  IF n.t # "object"
    THEN <<[path |-> <<>>, message |-> <<"Expected object, received ", n.t>>]>>
  ELSE IF i > Len(schema) THEN <<>>
  ELSE (IF ~Has(n, schema[i].key)
          THEN IF schema[i].optional THEN <<>>
               ELSE <<[path |-> <<schema[i].key>>, message |-> <<"Required">>]>>
        ELSE IF n.fields[schema[i].key].t = schema[i].type THEN <<>>
        ELSE <<[path |-> <<schema[i].key>>,
                message |-> <<"Expected ", schema[i].type, ", received ",
                              n.fields[schema[i].key].t>>]>>)
       \o zodIssues(schema, n, i + 1)
\* What schema.parse returns on a node without issues: the keys of the schema,
\* an optional one as <<>> or <<value>>; every other key is stripped.
zodParse(schema, n) ==
  LET keys == {schema[i].key : i \in DOMAIN schema}
      entry(k) == CHOOSE e \in {schema[i] : i \in DOMAIN schema} : e.key = k
      value(k) == IF entry(k).type = "boolean" THEN n.fields[k].v # <<>> ELSE n.fields[k].v
  IN [k \in keys |->
        IF entry(k).optional THEN (IF Has(n, k) THEN <<value(k)>> ELSE <<>>) ELSE value(k)]
\* getToolSchema(toolName): <<schema>>, or <<>> for undefined.
getToolSchema(toolName) ==
  CASE toolName \in {"get_component", "get_component_examples", "get_component_styles",
                     "get_install_command"}
         -> <<ComponentNameParamSchema>>
    [] toolName = "search_components" -> <<SearchParamSchema>>
    [] toolName = "get_components_by_category" -> <<CategoryParamSchema>>
    [] toolName \in {"list_components", "get_categories", "get_featured_components",
                     "get_registry_info"}
         -> << <<>> >>
    [] OTHER -> <<>>
\* The schema a tool handler parses its params with itself: <<schema>>, or <<>>.
handlerSchema(tool) ==
  CASE tool \in {"get_component", "get_component_examples", "get_component_styles",
                 "get_install_command", "get_component_documentation",
                 "get_accessibility_info"}
         -> <<ComponentNameParamSchema>>
    [] tool \in {"search_components", "search_documentation"} -> <<SearchParamSchema>>
    [] tool = "get_components_by_category" -> <<CategoryParamSchema>>
    [] OTHER -> <<>>

\* A member of Object.prototype called as handler(validatedParams), `this` being
\* undefined in a module: toString returns, Object returns its argument, the
\* prototype itself is no function and the other methods cannot convert `this`.
inheritedHandler(name, params) ==
  CASE name = "toString" -> [ok |-> TRUE, value |-> "[object Undefined]"]
    [] name = "constructor" -> [ok |-> TRUE, value |-> params]
    [] name = "__proto__" ->
         [ok |-> FALSE,
          error |-> [isMcpError |-> FALSE, message |-> "handler is not a function"]]
    [] OTHER ->
         [ok |-> FALSE,
          error |-> [isMcpError |-> FALSE,
                     message |-> "Cannot convert undefined or null to object"]]

\* The resource catalog the list-resources request answers with: the mimeType
\* declared for each uri.
resources ==
  [u \in {"brutalist-ui://registry/overview", "brutalist-ui://registry/categories",
          "brutalist-ui://registry/featured", "brutalist-ui://registry/installation",
          "brutalist-ui://registry/brutalist-features"} |->
     CASE u = "brutalist-ui://registry/overview" -> "text/plain"
       [] u \in {"brutalist-ui://registry/categories", "brutalist-ui://registry/featured"}
            -> "application/json"
       [] OTHER -> "text/markdown"]
\* resourceHandlers[uri]() once its await returned the index (static resources
\* await nothing): the text, as the values it is made of, and its content type.
resourceHandlers(uri, index) ==
  LET IsFeatured(c) == c.featured
  IN CASE uri = "brutalist-ui://registry/overview" ->
            [content |->
               [heading |-> "# Brutalist UI Registry Overview",
                description |-> index.description,
                name |-> index.name,
                framework |-> index.framework,
                version |-> index.version,
                totalComponents |-> Len(index.components),
                featuredComponents |-> Len(SelectSeq(index.components, IsFeatured)),
                categories |-> Cardinality(DOMAIN index.categories),
                baseUrl |-> index.baseUrl,
                maintainer |-> IF index.meta # <<>> /\ index.meta[1].maintainer # <<>>
                                 THEN index.meta[1].maintainer ELSE "Brutalist UI Team",
                lastUpdated |-> IF index.meta # <<>> /\ index.meta[1].lastUpdated # <<>>
                                  THEN index.meta[1].lastUpdated ELSE "Not specified"],
             contentType |-> "text/plain"]
       [] uri = "brutalist-ui://registry/categories" ->
            [content |-> stringifyCategories(getCategories(index)),
             contentType |-> "application/json"]
       [] uri = "brutalist-ui://registry/featured" ->
            [content |-> getFeaturedComponents(index), contentType |-> "application/json"]
       [] uri = "brutalist-ui://registry/installation" ->
            [content |-> "# Brutalist UI Installation Guide", contentType |-> "text/markdown"]
       [] uri = "brutalist-ui://registry/brutalist-features" ->
            [content |-> "# Brutalist Design Principles", contentType |-> "text/markdown"]
\* The catch of the ReadResourceRequestSchema handler.
readResourceCatch(thrown) ==
  IF "isMcpError" \in DOMAIN thrown /\ thrown.isMcpError THEN thrown
  ELSE [isError |-> TRUE, isMcpError |-> TRUE, code |-> "InternalError",
        prefix |-> "Error processing resource: ", inner |-> thrown]
\* A member of Object.prototype called as resourceHandler(): what the request
\* handler makes of it.  toString and Object return a value without contentType
\* or content, so that mimeType and text are undefined.
inheritedResource(uri) ==
  IF uri \in {"toString", "constructor"} THEN [ok |-> TRUE, value |-> <<>>]
  ELSE [ok |-> FALSE,
        error |-> [isMcpError |-> FALSE,
                   message |-> IF uri = "__proto__" THEN "resourceHandler is not a function"
                               ELSE "Cannot convert undefined or null to object"]]

\* The McpError the CallToolRequestSchema handler throws before it calls the tool
\* handler, as <<error>>; <<>> when it calls it.  name is <<>> or <<string>>.
callToolRejection(name, params) ==
  LET InvalidParams(prefix, inner) ==
        <<[isError |-> TRUE, isMcpError |-> TRUE, code |-> "InvalidParams",
           prefix |-> prefix, inner |-> inner]>>
  IN IF name = <<>> \/ name[1] = "" THEN InvalidParams("Tool name is required", <<>>)
     ELSE IF name[1] \notin toolHandlers \cup ObjectPrototypeKeys
       THEN InvalidParams("Tool not found: ", [name |-> name[1]])
     ELSE IF getToolSchema(name[1]) # <<>> /\ zodIssues(getToolSchema(name[1])[1], params, 1) # <<>>
       THEN InvalidParams("Invalid parameters: ",
                          [issues |-> zodIssues(getToolSchema(name[1])[1], params, 1)])
     ELSE <<>>

\* ---------------------------------------------------------------- start-up
\* parseArgs: the value after --registry-url, if there is a non-empty one.
parseArgs(args) ==
  IF \E i \in DOMAIN args : args[i] = "--registry-url"
    THEN LET i == CHOOSE j \in DOMAIN args :
                    args[j] = "--registry-url"
                    /\ \A k \in DOMAIN args : args[k] = "--registry-url" => j <= k
         IN IF i + 1 \in DOMAIN args /\ args[i + 1] # "" THEN <<args[i + 1]>> ELSE <<>>
    ELSE <<>>
\* main's choice between localhost and the published registry.
isDev(e, args) ==
  e.NODE_ENV = "development" \/ e.NODE_ENV = "dev" \/ \E i \in DOMAIN args : args[i] = "--dev"
\* The value main stores in process.env.REGISTRY_BASE_URL.
MainRegistryUrl(e, args) ==
  IF parseArgs(args) # <<>> THEN parseArgs(args)[1]
  ELSE IF isDev(e, args) THEN "http://localhost:3000" \o "/registry/react"
  ELSE "https://brutalist.precast.dev" \o "/registry/react"

\* The component names a behaviour may ask for.
ComponentNames == {"button", "missing"}

\* ------------------------------------------------------------------ state
VARIABLES
  launch,             \* history: process.env as the process was launched
  env,                \* process.env: NODE_ENV, REGISTRY_BASE_URL
  argv,               \* process.argv.slice(2)
  REGISTRY_BASE_URL,  \* the constant of utils/api.ts
  started,            \* main has connected the server
  cache,              \* the Map of utils/api.ts: key -> {data, timestamp}
  now,                \* Date.now()
  calls,              \* the log of tool invocations, in the order they began
  lastSet,            \* history: key -> the latest setCache: its data, time and caller
  disk                \* the file system the documentation is read from: path -> entry

vars == <<launch, env, argv, REGISTRY_BASE_URL, started, cache, now, calls, lastSet, disk>>



\* The state once the modules are loaded, for a set of environments and command lines.
InitWith(nodeEnvs, overrides, argLines) ==
  /\ env \in [NODE_ENV : nodeEnvs, REGISTRY_BASE_URL : overrides]
  /\ launch = env
  /\ argv \in argLines
  /\ REGISTRY_BASE_URL = RegistryBaseUrlAtLoad(env)
  /\ started = FALSE
  /\ cache = <<>>
  /\ now = 0
  /\ calls = <<>>
  /\ lastSet = <<>>
  /\ disk = <<>>   \* a machine without the pages of the website

\* main(): parseArgs, set process.env.REGISTRY_BASE_URL, setupHandlers, connect.
Main ==
  /\ ~started
  /\ env' = [env EXCEPT !.REGISTRY_BASE_URL = MainRegistryUrl(env, argv)]
  /\ started' = TRUE
  /\ UNCHANGED <<launch, argv, REGISTRY_BASE_URL, cache, now, calls, lastSet, disk>>

\* Time passes, to an epoch boundary or the millisecond after it.
Tick ==
  /\ \E t \in {m * CACHE_TTL + d : m \in 0..MaxEpochs, d \in {0, 1}} : t > now /\ now' = t
  /\ UNCHANGED <<launch, env, argv, REGISTRY_BASE_URL, started, cache, calls, lastSet, disk>>

\* A handler that blanks the description of the document it was handed.
afterHandler_Blanking(tool, value) == [value EXCEPT !.description = <<>>]

\* The document object the registry client handed to a handler (the very object
\* the Map holds), as the handler leaves it.  The handlers and the query layer
\* only read it: filter, find, map and forEach into fresh arrays and objects, a
\* spread into a fresh object, JSON.stringify; none assigns to a property of it
\* or calls a method that reorders or resizes its arrays.
afterHandler(tool, value) == value

\* A tool handler from its entry to its first await: the registry client reads the
\* cache and either returns the cached document or issues the GET.
\* The record keeps what the invocation saw: entryAt, the timestamp of the Map entry
\* it found; seen, the latest setCache on its key; cached, what getFromCache returned;
\* response, what axios.get settled with; settled, what the registry client made of it.
Begin(tool, params) ==
  LET kind == ToolFetches(tool)
      key == IF kind = "index" THEN IndexCacheKey ELSE ComponentCacheKey(params.componentName)
      url == IF kind = "index" THEN IndexUrl(REGISTRY_BASE_URL)
             ELSE ComponentUrl(REGISTRY_BASE_URL, params.componentName)
      cached == getFromCache(cache, key, now)
  IN /\ started
     /\ Len(calls) < MaxCalls
     /\ calls' = Append(calls,
          [tool |-> tool, params |-> params, key |-> key, readAt |-> now,
           entryAt |-> IF key \in DOMAIN cache THEN <<cache[key].timestamp>> ELSE <<>>,
           seen |-> IF key \in DOMAIN lastSet THEN <<lastSet[key]>> ELSE <<>>,
           cached |-> cached,
           pc |-> IF cached # <<>> THEN "returned" ELSE "awaiting",
           url |-> IF cached # <<>> THEN <<>> ELSE <<url>>,
           response |-> <<>>,
           settled |-> <<>>,
           setAt |-> <<>>])
     /\ cache' = IF cached # <<>>
                   THEN [cache EXCEPT ![key].data = afterHandler(tool, cached[1])]
                   ELSE cache
     /\ UNCHANGED <<launch, env, argv, REGISTRY_BASE_URL, started, now, lastSet, disk>>

ListComponents == Begin("list_components", <<>>)
GetComponentOf(names) == \E n \in names : Begin("get_component", [componentName |-> n])

\* What the registry client does with each settlement of its GET.
IndexSettled == [resp \in Settlements |-> fetchRegistryIndexSettle(resp)]
ComponentSettled ==
  [n \in ComponentNames |-> [resp \in Settlements |-> fetchComponentSettle(n, resp)]]

\* axios.get settles for invocation i: the registry client validates and caches the
\* body, or throws.
Settle(i, resp) ==
  LET c == calls[i]
      r == IF ToolFetches(c.tool) = "index" THEN IndexSettled[resp]
           ELSE ComponentSettled[c.params.componentName][resp]
  IN /\ c.pc = "awaiting"
     /\ cache' = IF r.ok THEN setCache(cache, c.key, afterHandler(c.tool, r.value), now)
                   ELSE cache
     /\ lastSet' = IF r.ok
                     THEN [k \in DOMAIN lastSet \cup {c.key} |->
                             IF k = c.key THEN [data |-> r.value, at |-> now, by |-> i]
                             ELSE lastSet[k]]
                     ELSE lastSet
     /\ calls' = [calls EXCEPT ![i] =
          [c EXCEPT !.pc = IF r.ok THEN "returned" ELSE "threw",
                    !.response = <<resp>>,
                    !.settled = <<r>>,
                    !.setAt = IF r.ok THEN <<now>> ELSE <<>>]]
     /\ UNCHANGED <<launch, env, argv, REGISTRY_BASE_URL, started, now, disk>>

AxiosSettlesWith(settlements) ==
  \E i \in DOMAIN calls : \E resp \in settlements : Settle(i, resp)

\* A documentation handler, whole: it reads the file system and returns or throws.
DocumentationOutcome(tool, params) ==
  CASE ToolFetches(tool) = "docs" -> extractComponentDocumentation(disk, params.componentName)
    [] tool = "search_documentation" -> searchDocumentation(params.query, params.category)
    [] tool = "get_documentation_sections" ->
         [ok |-> TRUE, value |-> getAllDocumentationSections]
\* A documentation handler that keeps what it produced in the registry client's Map.
BeginDocumentation_Cached(tool, params) ==
  LET r == DocumentationOutcome(tool, params)
  IN /\ started
     /\ Len(calls) < MaxCalls
     /\ calls' = Append(calls,
          [tool |-> tool, params |-> params, key |-> Null, readAt |-> now,
           entryAt |-> <<>>, seen |-> <<>>, cached |-> <<>>,
           pc |-> IF r.ok THEN "returned" ELSE "threw",
           url |-> <<>>, response |-> <<>>, settled |-> <<r>>, setAt |-> <<>>])
     /\ cache' = setCache(cache, "documentation", r, now)
     /\ UNCHANGED <<launch, env, argv, REGISTRY_BASE_URL, started, now, lastSet, disk>>
BeginDocumentation(tool, params) ==
  LET r == DocumentationOutcome(tool, params)
  IN /\ started
     /\ Len(calls) < MaxCalls
     /\ calls' = Append(calls,
          [tool |-> tool, params |-> params, key |-> Null, readAt |-> now,
           entryAt |-> <<>>, seen |-> <<>>, cached |-> <<>>,
           pc |-> IF r.ok THEN "returned" ELSE "threw",
           url |-> <<>>, response |-> <<>>, settled |-> <<r>>, setAt |-> <<>>])
     /\ UNCHANGED <<launch, env, argv, REGISTRY_BASE_URL, started, cache, now, lastSet, disk>>

\* An invocation that ends without reading a document: the request handler
\* rejected it, or the handler threw or returned at once.
Answer(tool, params, pc, r) ==
  /\ started
  /\ Len(calls) < MaxCalls
  /\ calls' = Append(calls,
       [tool |-> tool, params |-> params, key |-> Null, readAt |-> now,
        entryAt |-> <<>>, seen |-> <<>>, cached |-> <<>>, pc |-> pc,
        url |-> <<>>, response |-> <<>>, settled |-> <<r>>, setAt |-> <<>>])
  /\ UNCHANGED <<launch, env, argv, REGISTRY_BASE_URL, started, cache, now, lastSet, disk>>

\* The CallToolRequestSchema handler on a request { name, arguments }, each <<>>
\* when missing: the name and the handler are looked up, the arguments validated
\* against the schema getToolSchema has for the tool, and the handler called,
\* which parses its params itself before it does anything else.
CallTool(name, arguments) ==
  LET params == IF arguments # <<>> THEN arguments[1] ELSE JObj(<<>>)
      rejection == callToolRejection(name, params)
      tool == name[1]
      schema == handlerSchema(tool)
      issues == IF schema = <<>> THEN <<>> ELSE zodIssues(schema[1], params, 1)
      parsed == IF schema = <<>> THEN <<>> ELSE zodParse(schema[1], params)
      inherited == inheritedHandler(tool, params)
  IN /\ Len(calls) < MaxRequests
     /\ IF rejection # <<>>
          THEN Answer(IF name = <<>> THEN Null ELSE tool, params, "rejected",
                      [ok |-> FALSE, error |-> rejection[1]])
        ELSE IF tool \in ObjectPrototypeKeys
          THEN Answer(tool, params, IF inherited.ok THEN "returned" ELSE "threw", inherited)
        ELSE IF issues # <<>>
          THEN Answer(tool, params, "threw", [ok |-> FALSE, error |-> [zod |-> issues]])
        ELSE IF ToolFetches(tool) \in {"docs", "catalog"}
          THEN BeginDocumentation(tool, parsed)
        ELSE Begin(tool, parsed)

\* The ReadResourceRequestSchema handler on a request for uri: the handler is
\* looked up and called; the registry-backed resources read the index through the
\* registry client.  The invocation is logged with the uri for its tool and for
\* its params.
ReadResource(uri) ==
  IF uri \in DOMAIN resources
    THEN IF ToolFetches(uri) = "index" THEN Begin(uri, [resource |-> uri])
         ELSE Answer(uri, [resource |-> uri], "returned", [ok |-> TRUE, value |-> <<>>])
  ELSE IF uri \in ObjectPrototypeKeys
    THEN Answer(uri, [resource |-> uri],
                IF inheritedResource(uri).ok THEN "returned" ELSE "threw",
                inheritedResource(uri))
  ELSE Answer(uri, [resource |-> uri], "rejected",
              [ok |-> FALSE,
               error |-> [isError |-> TRUE, isMcpError |-> TRUE, code |-> "InvalidParams",
                          prefix |-> "Resource not found: ", inner |-> [uri |-> uri]]])

\* What the registry client handed to the handler of a finished invocation:
\* the cached document, or the outcome of its own fetch.
Fetched(c) == IF c.cached # <<>> THEN [ok |-> TRUE, value |-> c.cached[1]] ELSE c.settled[1]

\* What the caller of a finished invocation receives: the McpError the request
\* handler threw before any tool handler ran (pc = "rejected"); what a member of
\* Object.prototype returned or threw when it was taken for the handler; the
\* handler's success response; or the McpError the handler threw, passed through
\* the request handler.
ToolResult(c) ==
  IF c.pc = "rejected" THEN Fetched(c).error
  ELSE IF "resource" \in DOMAIN c.params
    THEN IF ~Fetched(c).ok THEN readResourceCatch(Fetched(c).error)
         ELSE IF c.tool \in ObjectPrototypeKeys
           THEN [isError |-> FALSE, contents |-> <<[uri |-> c.tool]>>]
         ELSE [isError |-> FALSE,
               contents |-> <<[uri |-> c.tool,
                               mimeType |-> resourceHandlers(c.tool, Fetched(c).value).contentType,
                               text |-> resourceHandlers(c.tool, Fetched(c).value).content]>>]
  ELSE IF c.tool \in ObjectPrototypeKeys
    THEN IF Fetched(c).ok THEN [isError |-> FALSE, returned |-> Fetched(c).value]
         ELSE callToolCatch(Fetched(c).error)
  ELSE IF Fetched(c).ok THEN ToolSuccess(c.tool, c.params, Fetched(c).value, env)
  ELSE callToolCatch(createErrorResponse(ToolErrorPrefix(c.tool), Fetched(c).error))

\* The cache over time: one component, two editions of each document, a rejected
\* body and a failed request.
Init == InitWith({"production"}, {Unset}, {<<>>})
GetComponent == GetComponentOf({"button"})
AxiosSettles ==
  AxiosSettlesWith(
    {Resolved(IndexDocA), Resolved(IndexDocB), Resolved(ButtonDoc), Resolved(ButtonDocV2),
     Resolved(OrphanFileDoc), Rejected(TRUE, 404, "Request failed with status code 404")})
Spec ==
  /\ Init
  /\ [][\/ Main
        \/ Tick
        \/ ListComponents
        \/ GetComponent
        \/ AxiosSettles]_vars

\* Every outcome of a GET, for every component name, at one instant.
InitErrors == InitWith({"production", "development"}, {Unset}, {<<>>})
GetAnyComponent == GetComponentOf(ComponentNames)
AxiosSettlesAnyhow == AxiosSettlesWith(Settlements)
SpecErrors ==
  /\ InitErrors
  /\ [][\/ Main
        \/ ListComponents
        \/ GetAnyComponent
        \/ AxiosSettlesAnyhow]_vars

\* Every environment and command line; the clock plays no part in the choice of URL.
AxiosSettlesConfig ==
  AxiosSettlesWith(
    {Resolved(IndexDocA), Resolved(ButtonDoc),
     Rejected(TRUE, 404, "Request failed with status code 404")})
SpecConfig ==
  /\ InitWith({Unset, "production", "development"},
              {Unset, "https://env-registry.example/react"},
              {<<>>, <<"--dev">>, <<"--registry-url", "https://custom-registry.com/react">>})
  /\ [][\/ Main
        \/ ListComponents
        \/ GetAnyComponent
        \/ AxiosSettlesConfig]_vars

\* The query layer on a fetched index.  Summaries differ in where the letters
\* "bu" occur and in which case, in their categories and in the featured flag.
\* The lists of at most n different elements of S.
RECURSIVE ListsOf(_, _)
ListsOf(S, n) ==
  IF n = 0 THEN {<<>>}
  ELSE LET shorter == ListsOf(S, n - 1)
           longest == {m \in shorter : Len(m) = n - 1}
       IN shorter \cup {l \in {Append(m, x) : m \in longest, x \in S} :
                          \A a, b \in DOMAIN l : a # b => l[a] # l[b]}
QueryIndexDocs ==
  LET QuerySummaries ==
        {RawSummary(<<"b", "u">>, <<"B", "u">>, Txt, <<"action">>, TRUE),
         RawSummary(Txt, <<"U", " ", "b">>, Txt, <<"display">>, FALSE),
         RawSummary(Txt, Txt, <<"a", "B", "U">>, <<"action", "display">>, TRUE)}
  IN {JObj(RawIndex(l, [action |-> RawCategory, display |-> RawCategory])) :
        l \in ListsOf(QuerySummaries, MaxIndexLen)}
CategoryArgs == {"", "action", "display"}

\* The server after main and one list_components whose GET resolved at time 0
\* with a document that passed RegistryIndexSchema: the index is in the cache.
InitFetched(docs) ==
  /\ launch = [NODE_ENV |-> "production", REGISTRY_BASE_URL |-> Unset]
  /\ argv = <<>>
  /\ env = [launch EXCEPT !.REGISTRY_BASE_URL = MainRegistryUrl(launch, argv)]
  /\ REGISTRY_BASE_URL = RegistryBaseUrlAtLoad(launch)
  /\ started = TRUE
  /\ now = 0
  /\ disk = <<>>
  /\ \E doc \in docs :
       LET r == fetchRegistryIndexSettle(Resolved(doc))
       IN /\ r.ok
          /\ cache = setCache(<<>>, IndexCacheKey, r.value, now)
          /\ lastSet = [k \in {IndexCacheKey} |-> [data |-> r.value, at |-> now, by |-> 1]]
          /\ calls = <<[tool |-> "list_components", params |-> <<>>, key |-> IndexCacheKey,
                        readAt |-> now, entryAt |-> <<>>, seen |-> <<>>, cached |-> <<>>,
                        pc |-> "returned", url |-> <<IndexUrl(REGISTRY_BASE_URL)>>,
                        response |-> <<Resolved(doc)>>, settled |-> <<r>>,
                        setAt |-> <<now>>]>>
SearchComponents ==
  \E p \in [query : {<<>>, <<" ">>, <<"b", "u">>, <<"B", "U">>, <<" ", "b">>},
            category : {<<>>} \cup {<<c>> : c \in CategoryArgs},
            featured : {<<>>, <<TRUE>>, <<FALSE>>}] :
    Begin("search_components", p)
GetComponentsByCategoryOf(params) == \E p \in params : Begin("get_components_by_category", p)
GetComponentsByCategory ==
  GetComponentsByCategoryOf([category : CategoryArgs \cup {"toString"}])
GetFeaturedComponents == Begin("get_featured_components", <<>>)
SpecQuery ==
  /\ InitFetched(QueryIndexDocs)
  /\ [][\/ SearchComponents
        \/ GetComponentsByCategory
        \/ GetFeaturedComponents]_vars

\* The category views and the statistics on a fetched index.  Components list a
\* category once, twice, or one named like a member of Object.prototype; the
\* category map has keys no component lists; the meta block is absent, dated, or
\* present with an empty date.
CategoryIndexDocs ==
  LET CategorySummaries ==
        {RawSummary(<<"a">>, Txt, Txt, <<"action">>, TRUE),
         RawSummary(<<"b">>, Txt, Txt, <<"action", "action">>, FALSE),
         RawSummary(<<"c">>, Txt, Txt, <<"toString", "nonexistent">>, TRUE)}
      CategoryMaps ==
        {[action |-> RawCategory, display |-> RawCategory],
         [action |-> RawCategory, toString |-> RawCategory],
         [constructor |-> RawCategory],
         <<>>}
      RawMeta(lastUpdated) ==
        JObj([lastUpdated |-> JStr(lastUpdated), totalComponents |-> JNum(<<"1">>),
              maintainer |-> JStr(Txt)])
      MetaBlocks == {<<>>, [meta |-> RawMeta(<<"2">>)], [meta |-> RawMeta(<<>>)]}
  IN {JObj(RawIndex(l, cm) @@ mb) :
        l \in ListsOf(CategorySummaries, MaxIndexLen), cm \in CategoryMaps, mb \in MetaBlocks}
GetCategoryComponents ==
  GetComponentsByCategoryOf(
    [category : {"action", "display", "toString", "constructor", "nonexistent"}])
GetCategories == Begin("get_categories", <<>>)
GetRegistryInfo == Begin("get_registry_info", <<>>)
SpecCategories ==
  /\ InitFetched(CategoryIndexDocs)
  /\ [][\/ GetCategoryComponents
        \/ GetCategories
        \/ GetFeaturedComponents
        \/ GetRegistryInfo]_vars

\* The documentation tools on a machine with some of the website's pages: the
\* page of a component by either naming convention, a chart page and the
\* pagination page, each absent, or present with or without content.
DocNames ==
  {<<"b", "t", "n">>, <<"b", "a", "r", "-", "c", "h", "a", "r", "t">>,
   <<"p", "a", "g", "i", "n", "a", "t", "i", "o", "n">>, <<>>}
Disks ==
  LET Markup(title) ==
        [h1 |-> title, description |-> <<>>, main |-> <<>>, examples |-> <<title>>,
         accessibility |-> <<>>]
      FileOf(content) == [kind |-> "file", content |-> content]
      Absent == [kind |-> "absent"]
      Unreadable == [kind |-> "unreadable"]
      paths == potentialPaths(<<"b", "t", "n">>)
      DocPaths == {paths[1], paths[2], paths[3], paths[8]}
      DocEntries(path) ==
        CASE path = paths[1] ->
               {Absent, FileOf(<<Markup(<<"B", "t", "n">>)>>), FileOf(<<>>), Unreadable}
          [] path = paths[2] -> {Absent, FileOf(<<Markup(<<"b", "t", "n">>)>>)}
          [] path = paths[3] ->
               {Absent, FileOf(<<Markup(<<"B", "a", "r">>)>>),
                FileOf(<<[Markup(<<>>) EXCEPT !.examples = <<>>]>>), Unreadable}
          [] path = paths[8] -> {Absent, FileOf(<<Markup(<<"P", "a", "g">>)>>)}
  IN {[p \in {q \in DocPaths : f[q] # Absent} |-> f[p]] :
        f \in {g \in [DocPaths -> UNION {DocEntries(q) : q \in DocPaths}] :
                 \A q \in DocPaths : g[q] \in DocEntries(q)}}
InitDocs ==
  /\ env \in [NODE_ENV : {"production"}, REGISTRY_BASE_URL : {Unset}]
  /\ launch = env
  /\ argv = <<>>
  /\ REGISTRY_BASE_URL = RegistryBaseUrlAtLoad(env)
  /\ started = FALSE
  /\ cache = <<>>
  /\ now = 0
  /\ calls = <<>>
  /\ lastSet = <<>>
  /\ disk \in Disks
GetComponentDocumentation ==
  \E n \in DocNames : BeginDocumentation("get_component_documentation", [componentName |-> n])
GetAccessibilityInfo ==
  \E n \in DocNames : BeginDocumentation("get_accessibility_info", [componentName |-> n])
SpecDocs ==
  /\ InitDocs
  /\ [][\/ Main
        \/ GetComponentDocumentation
        \/ GetAccessibilityInfo]_vars

\* Requests of every shape: each tool without arguments, with an argument of the
\* wrong type and with valid arguments; no name, and names toolHandlers lacks.
ArgumentsFor(name) ==
  LET Five == JNum(<<"5">>)
      tool == IF name = <<>> THEN Null ELSE name[1]
  IN {<<>>} \cup
     (CASE tool \in {"get_component", "get_component_examples", "get_component_styles",
                     "get_install_command"}
            -> {<<JObj([componentName |-> Five])>>,
                <<JObj([componentName |-> JStr("button")])>>}
        [] tool \in {"get_component_documentation", "get_accessibility_info"}
            -> {<<JObj([componentName |-> Five])>>,
                <<JObj([componentName |-> JStr(<<"b", "t", "n">>)])>>}
        [] tool = "search_components"
            -> {<<JObj([query |-> JStr(<<"b", "u">>), featured |-> JStr(<<"y">>)])>>,
                <<JObj([query |-> JStr(<<"b", "u">>), featured |-> JBool(TRUE)])>>}
        [] tool = "search_documentation"
            -> {<<JObj([query |-> Five])>>,
                <<JObj([query |-> JStr(<<"c", "h", "a", "r", "t">>),
                        category |-> JStr("components")])>>}
        [] tool = "get_components_by_category"
            -> {<<JObj([category |-> Five])>>, <<JObj([category |-> JStr("action")])>>}
        [] OTHER -> {<<JObj([extra |-> Five])>>})
CallToolRequest ==
  \E name \in {<<>>} \cup {<<n>> : n \in toolHandlers \cup {"no_such_tool", "toString",
                                                          "constructor", "__proto__"}} :
    \E a \in ArgumentsFor(name) : CallTool(name, a)
ReadResourceRequest ==
  /\ Len(calls) < MaxRequests
  /\ \E uri \in DOMAIN resources \cup {"brutalist-ui://registry/none", "undefined", "toString",
                                       "valueOf"} :
       ReadResource(uri)
SpecRequests ==
  /\ InitErrors
  /\ [][\/ Main
        \/ CallToolRequest
        \/ ReadResourceRequest
        \/ AxiosSettlesAnyhow]_vars

\* The static catalog, searched while the registry index comes and goes.
SearchDocumentation ==
  \E p \in [query : {<<>>, <<"T", "Y", "P">>, <<"c", "h", "a", "r", "t">>, <<"z", "z">>},
            category : {<<>>} \cup {<<c>> : c \in {"", "guides", "components", "api", "forms",
                                                   "constructor"}}] :
    BeginDocumentation("search_documentation", p)
GetDocumentationSections == BeginDocumentation("get_documentation_sections", <<>>)
SpecCatalog ==
  /\ Init
  /\ [][\/ Main
        \/ ListComponents
        \/ AxiosSettlesWith({Resolved(IndexDocA)})
        \/ SearchDocumentation
        \/ GetDocumentationSections]_vars

\* The cache through expiry and refetch: both editions of the index, a component
\* and a component the schema rejects, each delivered to any of the GETs.
SpecRefetch ==
  /\ Init
  /\ [][\/ Main
        \/ Tick
        \/ ListComponents
        \/ GetComponent
        \/ AxiosSettlesWith({Resolved(IndexDocA), Resolved(IndexDocB), Resolved(ButtonDoc),
                             Resolved(OrphanFileDoc)})]_vars

\* Invocations of every kind side by side at one instant: registry tools, the
\* five resources and a documentation tool, with GETs that bring the document,
\* another document, or a 404.
SpecInvocations ==
  /\ Init
  /\ [][\/ Main
        \/ ListComponents
        \/ GetComponent
        \/ \E t \in {"get_component_examples", "get_component_styles"} :
             Begin(t, [componentName |-> "button"])
        \/ \E uri \in DOMAIN resources : ReadResource(uri)
        \/ GetDocumentationSections
        \/ AxiosSettlesConfig]_vars

\* The documentation tools beside the registry tools: on a machine with at most
\* one page of the website, while the index is fetched, rejected or not found.
InitOnePage == InitDocs /\ Cardinality(DOMAIN disk) <= 1
SpecDocsBesideRegistry ==
  /\ InitOnePage
  /\ [][\/ Main
        \/ ListComponents
        \/ AxiosSettlesConfig
        \/ GetComponentDocumentation
        \/ GetAccessibilityInfo
        \/ GetDocumentationSections
        \/ BeginDocumentation("search_documentation",
                              [query |-> <<"c", "h", "a", "r", "t">>, category |-> <<>>])]_vars

\* ================================================================ properties
Finished(c) == c.pc \in {"returned", "threw"}
Call(i) == calls[i]
NotFound404 == Rejected(TRUE, 404, "Request failed with status code 404")

\* C1: setCache(k, v) replaces whatever entry k had and stamps it with the current
\* time, so every cache read of k made less than CACHE_TTL ms after the latest
\* setCache on k returns exactly the value of that setCache.
C1_SetThenGetReturnsValue ==
  /\ \A k \in DOMAIN lastSet :
       k \in DOMAIN cache
         /\ cache[k] = [data |-> lastSet[k].data, timestamp |-> lastSet[k].at]
  /\ \A i \in DOMAIN calls :
       (Call(i).seen # <<>> /\ Call(i).readAt - Call(i).seen[1].at < CACHE_TTL)
         => Call(i).cached = <<Call(i).seen[1].data>>
\* A read, one millisecond short of the TTL, of a value another invocation stored.
C1_Witness ==
  \E i \in DOMAIN calls :
    /\ Call(i).seen # <<>>
    /\ Call(i).readAt - Call(i).seen[1].at = CACHE_TTL - 1
    /\ Call(i).cached = <<Call(i).seen[1].data>>

\* C2: getFromCache returns a value only when the entry it found is younger than
\* CACHE_TTL ms, and that value is the stored one; from exactly CACHE_TTL ms on it
\* returns null although the key is still in the Map.
C2_ExpiryAtTTL ==
  \A i \in DOMAIN calls :
    /\ Call(i).cached # <<>> =>
         /\ Call(i).entryAt # <<>>
         /\ Call(i).readAt - Call(i).entryAt[1] < CACHE_TTL
         /\ Call(i).seen # <<>> /\ Call(i).cached[1] = Call(i).seen[1].data
    /\ (Call(i).entryAt # <<>> /\ Call(i).readAt - Call(i).entryAt[1] >= CACHE_TTL) =>
         /\ Call(i).cached = <<>>
         /\ Call(i).key \in DOMAIN cache
\* A read made exactly CACHE_TTL ms after the entry was stored came back null.
C2_Witness ==
  \E i \in DOMAIN calls :
    /\ Call(i).entryAt # <<>>
    /\ Call(i).readAt - Call(i).entryAt[1] = CACHE_TTL
    /\ Call(i).cached = <<>>
    /\ Call(i).key \in DOMAIN cache

\* C3 as stated: of two invocations for the same key whose cache reads are less
\* than CACHE_TTL ms apart, only the first issues a GET, and the second returns
\* the value the first stored.
C3_OneGetPerWindow ==
  \A i, j \in DOMAIN calls :
    (i < j /\ Call(i).key = Call(j).key /\ Call(j).readAt - Call(i).readAt < CACHE_TTL
       /\ Finished(Call(i)) /\ Finished(Call(j)))
      => /\ Call(i).url # <<>>
         /\ Call(j).url = <<>>
         /\ Call(i).setAt # <<>>
         /\ Call(j).cached = <<Call(i).settled[1].value>>
\* C3 amended: when invocation j reads the cache after invocation i has fetched,
\* validated and stored the document for the same key, i's write being the latest
\* on that key and less than CACHE_TTL ms old, j issues no GET (the pair issued
\* exactly one) and returns the value i stored.
C3_SecondServedFromCache ==
  \A i, j \in DOMAIN calls :
    (i # j /\ Call(j).seen # <<>> /\ Call(j).seen[1].by = i
       /\ Call(j).readAt - Call(j).seen[1].at < CACHE_TTL)
      => /\ Call(i).key = Call(j).key
         /\ Call(i).url # <<>> /\ Call(i).setAt = <<Call(j).seen[1].at>>
         /\ Call(j).url = <<>> /\ Call(j).pc = "returned"
         /\ Fetched(Call(j)) = [ok |-> TRUE, value |-> Call(i).settled[1].value]
\* Two invocations for one component, the second served from the cache.
C3_Witness ==
  \E i, j \in DOMAIN calls :
    /\ i # j /\ Call(j).seen # <<>> /\ Call(j).seen[1].by = i
    /\ Call(i).tool = "get_component" /\ Call(j).tool = "get_component"
    /\ Call(j).readAt > Call(i).setAt[1]
    /\ Call(j).url = <<>> /\ Call(j).pc = "returned"

\* C4: fetchComponent turns a 404 response into "Component '<name>' not found in
\* registry", any other failed request into "Failed to fetch component '<name>': ..."
\* and a body ComponentSchema rejects into "Failed to parse component '<name>': ...";
\* get_component hands that message, with the name, to the caller as an McpError.
C4_ComponentErrorKinds ==
  \A i \in DOMAIN calls :
    (Call(i).tool = "get_component" /\ Call(i).settled # <<>>) =>
      LET resp == Call(i).response[1]
          r == Call(i).settled[1]
          n == Call(i).params.componentName
      IN /\ (~resp.ok /\ resp.hasResponse /\ resp.status = 404) =>
              (~r.ok /\ r.error = [prefix |-> "Component '", name |-> n,
                                   suffix |-> "' not found in registry"])
         /\ (~resp.ok /\ ~(resp.hasResponse /\ resp.status = 404)) =>
              (~r.ok /\ r.error = [prefix |-> "Failed to fetch component '", name |-> n,
                                   suffix |-> "': ", detail |-> resp.message])
         /\ (resp.ok /\ ~ComponentSchema(resp.data)) =>
              (~r.ok /\ r.error.prefix = "Failed to parse component '" /\ r.error.name = n
                 /\ r.error.issues # {})
         /\ (resp.ok /\ ComponentSchema(resp.data)) => r.ok
         /\ ~r.ok =>
              /\ Call(i).pc = "threw"
              /\ ToolResult(Call(i)).isError
              /\ ToolResult(Call(i)).prefix = "Failed to get component: "
              /\ ToolResult(Call(i)).inner = r.error
              /\ ToolResult(Call(i)).inner.name = n
\* get_component("missing") met a 404 and the caller got the not-found message.
C4_Witness ==
  \E i \in DOMAIN calls :
    /\ Call(i).tool = "get_component" /\ Call(i).params.componentName = "missing"
    /\ Call(i).settled # <<>> /\ Call(i).response[1] = NotFound404
    /\ ToolResult(Call(i)).inner.prefix = "Component '"
    /\ ToolResult(Call(i)).inner.name = "missing"

\* C5: fetchRegistryIndex turns every failed request, a 404 included, into "Failed
\* to fetch registry index: <transport message>" and a body RegistryIndexSchema
\* rejects into "Failed to parse registry index: <validator's issues>".
C5_IndexErrorKinds ==
  \A i \in DOMAIN calls :
    (Call(i).tool = "list_components" /\ Call(i).settled # <<>>) =>
      LET resp == Call(i).response[1]
          r == Call(i).settled[1]
      IN /\ ~resp.ok =>
              (~r.ok /\ r.error = [prefix |-> "Failed to fetch registry index: ",
                                   detail |-> resp.message])
         /\ (resp.ok /\ ~RegistryIndexSchema(resp.data)) =>
              (~r.ok /\ r.error = [prefix |-> "Failed to parse registry index: ",
                                   issues |-> RegistryIndexIssues(resp.data)]
                 /\ r.error.issues # {})
         /\ (resp.ok /\ RegistryIndexSchema(resp.data)) => r.ok
\* The index request met a 404, and another met an index with a mistyped field.
C5_Witness ==
  /\ \E i \in DOMAIN calls :
       /\ Call(i).tool = "list_components" /\ Call(i).settled # <<>>
       /\ Call(i).response[1] = NotFound404
       /\ Call(i).settled[1].error.prefix = "Failed to fetch registry index: "
  /\ \E i \in DOMAIN calls :
       /\ Call(i).tool = "list_components" /\ Call(i).settled # <<>>
       /\ Call(i).response[1] = Resolved(IndexDocBadFeatured)
       /\ Call(i).settled[1].error.prefix = "Failed to parse registry index: "

\* The explicit override of the registry URL the process was started with, if any.
Override ==
  IF parseArgs(argv) # <<>> THEN parseArgs(argv)
  ELSE IF launch.REGISTRY_BASE_URL # Unset THEN <<launch.REGISTRY_BASE_URL>>
  ELSE <<>>

\* C6: with an explicit override (--registry-url or REGISTRY_BASE_URL), every GET
\* of the registry client goes to the override URL, whatever NODE_ENV says.
C6_OverrideIsUsed ==
  \A i \in DOMAIN calls :
    (Call(i).url # <<>> /\ Override # <<>>) => Call(i).url[1].base = Override[1]

\* C7: with no override, the GETs go to the development endpoint only when the
\* mode flag selects development and to the production endpoint otherwise (flag
\* unset included); it is the endpoint main chose, and it never changes.
C7_ModeSelectsEndpoint ==
  \A i \in DOMAIN calls :
    (Call(i).url # <<>> /\ Override = <<>>) =>
      /\ Call(i).url[1].base =
           IF isDev(env, argv) THEN DevelopmentRegistry ELSE ProductionRegistry
      /\ Call(i).url[1].base = env.REGISTRY_BASE_URL
      /\ \A j \in DOMAIN calls :
           Call(j).url # <<>> => Call(j).url[1].base = Call(i).url[1].base

\* ---- the query layer
\* The payload of a finished invocation that succeeded, and the index it queried.
Payload(c) == ToolResult(c).content
IndexOf(c) == Fetched(c).value
SearchCalls ==
  {i \in DOMAIN calls :
     Call(i).tool = "search_components" /\ Finished(Call(i)) /\ Fetched(Call(i)).ok}
Blank(str) == \A i \in DOMAIN str : str[i] \in WhiteSpace
SameLetter(a, b) == LowerChar(a) = LowerChar(b)
\* sub occurs in str as a contiguous run, letter case ignored.
OccursIn(sub, str) ==
  \E k \in 0..(Len(str) - Len(sub)) : \A j \in DOMAIN sub : SameLetter(str[k + j], sub[j])
TextHit(c, q) ==
  OccursIn(q, c.name) \/ OccursIn(q, c.title) \/ OccursIn(q, c.description)
\* The elements of list at the positions in keep, in the order of the list.
RECURSIVE Kept(_, _, _)
Kept(list, keep, from) ==
  IF from > Len(list) THEN <<>>
  ELSE IF from \in keep THEN <<list[from]>> \o Kept(list, keep, from + 1)
  ELSE Kept(list, keep, from + 1)
\* part picks elements of whole at strictly increasing positions.
Subsequence(part, whole) ==
  \E f \in [DOMAIN part -> DOMAIN whole] :
    /\ \A a, b \in DOMAIN part : a < b => f[a] < f[b]
    /\ \A a \in DOMAIN part : part[a] = whole[f[a]]

\* C8: search_components(query, category, featured) returns exactly the components
\* that list the category when one is given, have the featured flag when one is
\* given, and contain the lower-cased query in name, title or description.
C8_SearchIsFilterConjunction ==
  \A i \in SearchCalls :
    LET p == Call(i).params
        all == IndexOf(Call(i)).components
        keep == {k \in DOMAIN all :
                   /\ p.category # <<>> => listIncludes(all[k].categories, p.category[1])
                   /\ p.featured # <<>> => all[k].featured = p.featured[1]
                   /\ TextHit(all[k], p.query)}
    IN Payload(Call(i)).results = Kept(all, keep, 1)
\* C8 as the code has it: the category filter applies when the category given is not
\* the empty string, and the text filter when the query has a non-blank character.
C8_SearchFiltersWhenNonEmpty ==
  \A i \in SearchCalls :
    LET p == Call(i).params
        all == IndexOf(Call(i)).components
        keep == {k \in DOMAIN all :
                   /\ (p.category # <<>> /\ p.category[1] # "")
                        => listIncludes(all[k].categories, p.category[1])
                   /\ p.featured # <<>> => all[k].featured = p.featured[1]
                   /\ ~Blank(p.query) => TextHit(all[k], p.query)}
    IN Payload(Call(i)).results = Kept(all, keep, 1)
\* A search in upper case with all three filters, keeping one of three components on a
\* lower-case hit in a description.
C8_Witness ==
  \E i \in SearchCalls :
    /\ Call(i).params = [query |-> <<"B", "U">>, category |-> <<"display">>,
                         featured |-> <<TRUE>>]
    /\ Len(IndexOf(Call(i)).components) = 3
    /\ Len(Payload(Call(i)).results) = 1
    /\ Payload(Call(i)).results[1].description = <<"a", "B", "U">>

\* C9: a blank query applies no text filter: the search returns what the category
\* and featured filters left, and with no filter at all the whole index.
C9_BlankQueryNoTextFilter ==
  \A i \in SearchCalls :
    LET p == Call(i).params
        all == IndexOf(Call(i)).components
    IN Blank(p.query) =>
         /\ \A k \in DOMAIN all :
              listIncludes(Payload(Call(i)).results, all[k]) <=>
                /\ (p.category # <<>> /\ p.category[1] # "")
                     => listIncludes(all[k].categories, p.category[1])
                /\ p.featured # <<>> => all[k].featured = p.featured[1]
         /\ (p.query = <<>> /\ p.category = <<>> /\ p.featured = <<>>) =>
              /\ Payload(Call(i)).results = all
              /\ Payload(Call(i)).total = Len(all)
\* A query of one space with a featured filter returns two of three components,
\* neither of which has a space in its texts.
C9_Witness ==
  \E i \in SearchCalls :
    /\ Call(i).params = [query |-> <<" ">>, category |-> <<>>, featured |-> <<TRUE>>]
    /\ Len(IndexOf(Call(i)).components) = 3
    /\ Len(Payload(Call(i)).results) = 2
    /\ \A k \in DOMAIN Payload(Call(i)).results :
         ~TextHit(Payload(Call(i)).results[k], <<" ">>)

\* C10: the components returned by search_components, get_components_by_category
\* and get_featured_components are picked from the index in the index's order,
\* none twice, and total is the length of the returned list.
C10_OrderAndTotal ==
  \A i \in DOMAIN calls :
    LET c == Call(i)
        list == IF c.tool = "search_components" THEN Payload(c).results
                ELSE Payload(c).components
    IN (Finished(c) /\ Fetched(c).ok /\ c.tool # "list_components") =>
         /\ Subsequence(list, IndexOf(c).components)
         /\ Payload(c).total = Len(list)
\* A featured listing that returns the first and the third of three different
\* components.
C10_Witness ==
  \E i \in DOMAIN calls :
    LET all == IndexOf(Call(i)).components
    IN /\ Call(i).tool = "get_featured_components"
       /\ Len(all) = 3
       /\ Payload(Call(i)).total = 2
       /\ Payload(Call(i)).components = <<all[1], all[3]>>
       /\ all[1] # all[3]

\* ---- the category views and the statistics
\* The finished, successful invocations of a tool.
CallsOf(tool) ==
  {i \in DOMAIN calls : Call(i).tool = tool /\ Finished(Call(i)) /\ Fetched(Call(i)).ok}
\* What the registry client returned to the handler of such an invocation.
CategoryView(i) == getComponentsByCategory(IndexOf(Call(i)), Call(i).params.category)
Categories(i) == getCategories(IndexOf(Call(i)))
RegistryInfo(i) == getRegistryInfo(IndexOf(Call(i)))

\* C11: getComponentsByCategory(c) returns categoryInfo null exactly when c is not a
\* key of the index's category map, and for "nonexistent", which is no key of any
\* category map, categoryInfo null and no components.
C11_CategoryInfoNullIffNoKey ==
  \A i \in CallsOf("get_components_by_category") :
    LET c == Call(i).params.category
    IN /\ CategoryView(i).categoryInfo = <<>> <=> c \notin DOMAIN IndexOf(Call(i)).categories
       /\ c = "nonexistent" =>
            /\ CategoryView(i).categoryInfo = <<>>
            /\ CategoryView(i).components = <<>>

\* The number of components of the index that list the category key.
ListedBy(index, key) ==
  Cardinality({k \in DOMAIN index.components :
                 listIncludes(index.components[k].categories, key)})

\* C12: getCategories() returns one entry per key of the index's category map and
\* no others; each entry's count is the number of components that list the key,
\* 0 when none does; total is the number of keys of the category map.
C12_CountsPerCategoryKey ==
  \A i \in CallsOf("get_categories") :
    LET index == IndexOf(Call(i))
    IN /\ DOMAIN Categories(i).categories = DOMAIN index.categories
       /\ \A k \in DOMAIN index.categories :
            Categories(i).categories[k].count = [number |-> ListedBy(index, k)]
       /\ Categories(i).total = Cardinality(DOMAIN index.categories)

\* C13: getFeaturedComponents() returns exactly the components whose featured flag
\* is true, in index order, and total is their number.
C13_FeaturedExactly ==
  \A i \in CallsOf("get_featured_components") :
    LET all == IndexOf(Call(i)).components
        flagged == {k \in DOMAIN all : all[k].featured}
    IN /\ Payload(Call(i)).components = Kept(all, flagged, 1)
       /\ Payload(Call(i)).total = Cardinality(flagged)
\* A listing that leaves out the unfeatured second of three components.
C13_Witness ==
  \E i \in CallsOf("get_featured_components") :
    LET all == IndexOf(Call(i)).components
    IN /\ Len(all) = 3
       /\ ~all[2].featured
       /\ Payload(Call(i)) = [components |-> <<all[1], all[3]>>, total |-> 2]

\* The statistics of C14 other than lastUpdated.
StatsCount(i) ==
  LET index == IndexOf(Call(i))
      stats == Payload(Call(i)).stats
  IN /\ stats.totalComponents = Len(index.components)
     /\ stats.featuredComponents =
          Cardinality({k \in DOMAIN index.components : index.components[k].featured})
     /\ stats.featuredComponents = getFeaturedComponents(index).total
     /\ stats.categoriesCount = Cardinality(DOMAIN index.categories)

\* C14: getRegistryInfo() returns stats with totalComponents the number of
\* components, featuredComponents the number with featured true (the total of
\* getFeaturedComponents on the same index), categoriesCount the number of keys of
\* the category map, and lastUpdated the meta block's lastUpdated, null exactly
\* when the meta block is absent.
C14_StatsAndLastUpdated ==
  \A i \in CallsOf("get_registry_info") :
    LET index == IndexOf(Call(i))
        stats == Payload(Call(i)).stats
    IN /\ StatsCount(i)
       /\ stats.lastUpdated = <<>> <=> index.meta = <<>>
       /\ index.meta # <<>> => stats.lastUpdated = <<index.meta[1].lastUpdated>>
\* C14 as the code has it: lastUpdated is null when the meta block is absent or its
\* lastUpdated is the empty string, and the meta block's lastUpdated otherwise.
C14_StatsAndNonEmptyLastUpdated ==
  \A i \in CallsOf("get_registry_info") :
    LET index == IndexOf(Call(i))
        stats == Payload(Call(i)).stats
        dated == index.meta # <<>> /\ index.meta[1].lastUpdated # <<>>
    IN /\ StatsCount(i)
       /\ stats.lastUpdated = <<>> <=> ~dated
       /\ dated => stats.lastUpdated = <<index.meta[1].lastUpdated>>
\* The statistics of three components, two featured, under a two-key category map
\* and a dated meta block.
C14_Witness ==
  \E i \in CallsOf("get_registry_info") :
    /\ Payload(Call(i)).stats =
         [totalComponents |-> 3, featuredComponents |-> 2, categoriesCount |-> 2,
          lastUpdated |-> << <<"2">> >>]
    /\ IndexOf(Call(i)).meta # <<>>

\* ---- the documentation extractor
DocumentationCalls ==
  {i \in DOMAIN calls :
     Call(i).tool \in {"get_component_documentation", "get_accessibility_info"}}
\* The record extractComponentDocumentation returned to the handler.
Documentation(i) == Call(i).settled[1].value
\* No path the extractor tries for the name holds a file that can be read.
NothingToRead(name) ==
  \A p \in {potentialPaths(name)[k] : k \in 1..8}
           \cup {sc[2] : sc \in {x \in specialCases : x[1] = name}} :
    p \notin DOMAIN disk \/ disk[p].kind # "file"
DocumentationSucceeds(i) ==
  /\ Call(i).pc = "returned"
  /\ Call(i).settled[1].ok
  /\ ~ToolResult(Call(i)).isError
  /\ ToolResult(Call(i)).content.componentName = Call(i).params.componentName

OwnPath(name) ==
  IF \E sc \in specialCases : sc[1] = name
    THEN (CHOOSE sc \in specialCases : sc[1] = name)[2]
    ELSE potentialPaths(name)[1]
HasOwnContent(name) ==
  /\ OwnPath(name) \in DOMAIN disk
  /\ disk[OwnPath(name)].kind = "file"
  /\ disk[OwnPath(name)].content # <<>>

\* C16: the documentation source is resolved by name only, a name of the
\* special-case table to the table's location and every other name to the
\* capitalized-name location; the record is built from that file, and is the
\* default record when that file does not exist.
C16_ResolvedByNameOnly ==
  \A i \in DocumentationCalls :
    LET name == Call(i).params.componentName
    IN Documentation(i) =
         IF HasOwnContent(name)
           THEN BuiltDocumentation(name, disk[OwnPath(name)].content[1], OwnPath(name))
           ELSE DefaultDocumentation(name)

\* ---- the documentation catalog
\* The catalog items of a section whose lower-cased name contains the lower-cased
\* query, as "section/item", in catalog order.
RECURSIVE CatalogHits(_, _, _)
CatalogHits(sectionName, query, k) ==
  IF k > Len(DOCS_STRUCTURE[sectionName]) THEN <<>>
  ELSE (IF OccursIn(query, DOCS_STRUCTURE[sectionName][k])
          THEN << <<sectionName, "/", DOCS_STRUCTURE[sectionName][k]>> >> ELSE <<>>)
       \o CatalogHits(sectionName, query, k + 1)

\* C17: searchDocumentation(query, section) returns, for every query and every
\* section argument, the "section/item" strings of exactly the catalog items whose
\* name contains the query, case ignored: those of the given section when one is
\* given, otherwise of guides, components and api in catalog order; whatever the
\* cache holds.
C17_CatalogSearch ==
  \A i \in DOMAIN calls :
    LET p == Call(i).params
    IN Call(i).tool = "search_documentation" =>
         /\ Call(i).settled[1].ok
         /\ Call(i).settled[1].value =
              IF p.category = <<>>
                THEN CatalogHits("guides", p.query, 1) \o CatalogHits("components", p.query, 1)
                       \o CatalogHits("api", p.query, 1)
              ELSE IF p.category[1] \in DOMAIN DOCS_STRUCTURE
                THEN CatalogHits(p.category[1], p.query, 1)
              ELSE <<>>

\* ---- the request handlers
\* The invocations of a tool with arguments its parameter schema has issues with
\* (a required field missing, or a field of the wrong type): such an invocation
\* is logged with its arguments as they came.
HasInvalidArguments(i) ==
  /\ Call(i).tool \in toolHandlers
  /\ "fields" \in DOMAIN Call(i).params
  /\ handlerSchema(Call(i).tool) # <<>>
  /\ zodIssues(handlerSchema(Call(i).tool)[1], Call(i).params, 1) # <<>>
OffendingPaths(i) ==
  LET issues == zodIssues(handlerSchema(Call(i).tool)[1], Call(i).params, 1)
  IN {issues[k].path : k \in DOMAIN issues}

\* C18: an invocation of any tool with required arguments, the documentation
\* tools included, whose arguments miss a required field or have a field of the
\* wrong type fails with an InvalidParams error that lists the offending field
\* paths, never with an internal error, and issues no network fetch.
C18_InvalidArgumentsAreInvalidParams ==
  \A i \in DOMAIN calls :
    HasInvalidArguments(i) =>
      /\ Call(i).pc \in {"rejected", "threw"}
      /\ Call(i).url = <<>>
      /\ ToolResult(Call(i)).isError
      /\ ToolResult(Call(i)).code = "InvalidParams"
      /\ {ToolResult(Call(i)).inner.issues[k].path :
            k \in DOMAIN ToolResult(Call(i)).inner.issues} = OffendingPaths(i)

\* C19: the tools the list-tools request advertises are the tools that can be
\* invoked, all 14 of them, and an invocation of any other name fails with an
\* InvalidParams "Tool not found" error.
C19_ListedIsCallable ==
  /\ Cardinality(toolHandlers) = 14
  /\ \A i \in DOMAIN calls :
       LET NotFound == /\ Call(i).pc = "rejected"
                       /\ ToolResult(Call(i)).code = "InvalidParams"
                       /\ ToolResult(Call(i)).prefix = "Tool not found: "
       IN (Call(i).tool # Null /\ "resource" \notin DOMAIN Call(i).params) =>
            IF Call(i).tool \in toolHandlers
              THEN Call(i).tool \in tools /\ ~NotFound
              ELSE NotFound

\* An invocation whose read through the registry client ended in an error.
RegistryFailed(c) ==
  /\ ToolFetches(c.tool) \in {"index", "component"}
  /\ c.pc = "threw"
  /\ c.response # <<>>
\* What the caller received is an error and nothing else, or a result and
\* nothing else.
ErrorOnly(r) ==
  /\ r.isError
  /\ r.code \in {"InvalidParams", "InternalError"}
  /\ DOMAIN r \cap {"content", "contents", "returned"} = {}
ResultOnly(r) == ~r.isError /\ DOMAIN r \cap {"code", "prefix", "inner"} = {}

\* C20: every failure of a tool or resource invocation is final and reaches the
\* caller as one error whose code is InvalidParams or InternalError; an error of
\* the registry client (fetch, not found, parse) arrives as an InternalError
\* carrying that error's message, after a single GET and without any result; no
\* invocation yields both a result and an error; a finished invocation is never
\* resumed.
C20_FailuresAreFinalAndStructured ==
  /\ [](\A i \in DOMAIN calls :
          Call(i).pc # "awaiting" =>
            /\ Call(i).pc \in {"threw", "rejected"} => ErrorOnly(ToolResult(Call(i)))
            /\ Call(i).pc = "returned" => ResultOnly(ToolResult(Call(i)))
            /\ RegistryFailed(Call(i)) =>
                 /\ ToolResult(Call(i)).code = "InternalError"
                 /\ ToolResult(Call(i)).inner = Call(i).settled[1].error
                 /\ Len(Call(i).url) = 1 /\ Len(Call(i).response) = 1
                 /\ Call(i).setAt = <<>>)
  /\ [][\A i \in DOMAIN calls :
          calls[i].pc # "awaiting" => i \in DOMAIN calls' /\ calls'[i] = calls[i]]_vars
\* A style request for a component the registry does not have, and an overview
\* read whose index did not parse: each ends in one internal error with the
\* registry client's message.
C20_Witness ==
  \E i \in DOMAIN calls :
    /\ RegistryFailed(Call(i))
    /\ \/ /\ Call(i).tool = "get_component_styles"
          /\ Call(i).settled[1].error.suffix = "' not found in registry"
          /\ ToolResult(Call(i)).prefix = "Failed to get component styles: "
       \/ /\ Call(i).tool = "brutalist-ui://registry/overview"
          /\ Call(i).settled[1].error.prefix = "Failed to parse registry index: "
          /\ ToolResult(Call(i)).prefix = "Error processing resource: "
    /\ ToolResult(Call(i)).code = "InternalError"

\* C21: the catalog has five URIs; a read of one of them is answered with the
\* mimeType the catalog declares, the registry-backed ones through the cached
\* index (a GET exactly when the cache gave nothing), the static ones without a
\* cache key or a GET; a read of any other URI is rejected with InvalidParams
\* "Resource not found: <uri>".
ResourceReads == {i \in DOMAIN calls : "resource" \in DOMAIN Call(i).params}
C21_ResourceSurface ==
  /\ Cardinality(DOMAIN resources) = 5
  /\ \A i \in ResourceReads :
       LET c == Call(i)
           uri == c.params.resource
       IN /\ uri \in DOMAIN resources =>
               /\ c.pc # "rejected"
               /\ ToolFetches(uri) = "index" =>
                    /\ c.key = IndexCacheKey
                    /\ (c.url = <<>>) <=> (c.cached # <<>>)
               /\ ToolFetches(uri) # "index" =>
                    /\ c.key = Null /\ c.url = <<>> /\ c.pc = "returned"
               /\ (Finished(c) /\ Fetched(c).ok) =>
                    /\ ~ToolResult(c).isError
                    /\ ToolResult(c).contents[1].uri = uri
                    /\ "mimeType" \in DOMAIN ToolResult(c).contents[1]
                    /\ ToolResult(c).contents[1].mimeType = resources[uri]
          /\ uri \notin DOMAIN resources =>
               /\ c.pc = "rejected"
               /\ ToolResult(c).isError
               /\ ToolResult(c).code = "InvalidParams"
               /\ ToolResult(c).prefix = "Resource not found: "

\* C22: fetchRegistryIndex and fetchComponent never return a cached value stored
\* CACHE_TTL ms or more before their cache read; a call that finds an entry that
\* old issues a GET for the document's URL, validates the body and, when it
\* passes, replaces the entry with the validated value under a later timestamp.
\* What the registry client makes of the response an invocation's GET met, and
\* whether the schemas accept each body (computed once per response).
OwnOutcome(c) ==
  IF c.key = IndexCacheKey THEN IndexSettled[c.response[1]]
  ELSE ComponentSettled[c.params.componentName][c.response[1]]
PassesSchema ==
  [resp \in {s \in Settlements : s.ok} |->
     [index |-> RegistryIndexSchema(resp.data), component |-> ComponentSchema(resp.data)]]
Revalidations ==
  {i \in DOMAIN calls :
     /\ Call(i).key \in {IndexCacheKey} \cup {ComponentCacheKey(n) : n \in ComponentNames}
     /\ Call(i).entryAt # <<>>
     /\ Call(i).readAt - Call(i).entryAt[1] >= CACHE_TTL}
C22_NoStaleValueReturned ==
  /\ \A i \in DOMAIN calls :
       Call(i).cached # <<>> =>
         /\ Call(i).seen # <<>>
         /\ Call(i).readAt - Call(i).seen[1].at < CACHE_TTL
         /\ Fetched(Call(i)).value = Call(i).seen[1].data
  /\ \A i \in Revalidations :
       LET c == Call(i)
       IN /\ c.cached = <<>>
          /\ c.url = <<IF c.key = IndexCacheKey THEN IndexUrl(REGISTRY_BASE_URL)
                       ELSE ComponentUrl(REGISTRY_BASE_URL, c.params.componentName)>>
          /\ c.settled # <<>> =>
               /\ c.settled[1] = OwnOutcome(c)
               /\ c.settled[1].ok =>
                    /\ c.response[1].ok
                    /\ IF c.key = IndexCacheKey THEN PassesSchema[c.response[1]].index
                       ELSE PassesSchema[c.response[1]].component
                    /\ c.setAt # <<>> /\ c.setAt[1] > c.entryAt[1]
                    /\ lastSet[c.key].at >= c.setAt[1]
                    /\ cache[c.key].timestamp >= c.setAt[1]
                    /\ lastSet[c.key].by = i =>
                         cache[c.key] = [data |-> c.settled[1].value,
                                         timestamp |-> c.setAt[1]]
               /\ ~c.settled[1].ok => c.pc = "threw"
\* An index stored at time 0 was found expired at CACHE_TTL; the GET brought the
\* second edition, which is now in the cache under the time of that write.
C22_Witness ==
  \E i \in Revalidations :
    /\ Call(i).key = IndexCacheKey
    /\ Call(i).readAt - Call(i).entryAt[1] = CACHE_TTL
    /\ Call(i).settled # <<>> /\ Call(i).settled[1].ok
    /\ Call(i).seen[1].data # Call(i).settled[1].value
    /\ cache[IndexCacheKey] = [data |-> Call(i).settled[1].value, timestamp |-> Call(i).setAt[1]]
    /\ Call(i).setAt[1] > Call(i).entryAt[1]

\* C23: when two invocations for one key both read the cache before either
\* writes it, both issue the same GET; each ends with what its own GET brought
\* (the validated document, or that GET's error), whatever the other did; when
\* both succeed both have written, and the Map holds one entry for the key: the
\* value of the later write under that write's time.
\* Invocation j began after i, and before i had written: i is still waiting, or
\* i has written and j saw the state of the key that i had seen.
Racing(i, j) ==
  /\ i < j
  /\ Call(i).key # Null /\ Call(i).key = Call(j).key
  /\ Call(i).cached = <<>> /\ Call(j).cached = <<>>
  /\ \/ Call(i).pc = "awaiting"
     \/ Call(i).setAt # <<>> /\ Call(j).seen = Call(i).seen
C23_RacingMissesBothFetch ==
  \A i, j \in DOMAIN calls :
    Racing(i, j) =>
      /\ Call(i).url # <<>> /\ Call(j).url = Call(i).url
      /\ \A k \in {i, j} :
           /\ Call(k).pc \in {"awaiting", "returned", "threw"}
           /\ (Call(k).pc = "awaiting") <=> (Call(k).settled = <<>>)
           /\ Call(k).settled # <<>> =>
                /\ Fetched(Call(k)) = OwnOutcome(Call(k))
                /\ (Call(k).pc = "returned") <=> Fetched(Call(k)).ok
                /\ (Call(k).setAt # <<>>) <=> Fetched(Call(k)).ok
      /\ \A k \in {i, j} :
           (Call(k).setAt # <<>> /\ lastSet[Call(k).key].by = k) =>
             /\ \A o \in {i, j} : Call(o).setAt # <<>> => Call(o).setAt[1] <= Call(k).setAt[1]
             /\ cache[Call(k).key] = [data |-> Call(k).settled[1].value,
                                      timestamp |-> Call(k).setAt[1]]
      /\ (Call(i).setAt # <<>> /\ Call(j).setAt # <<>>) =>
           /\ Call(i).key \in DOMAIN cache
           /\ cache[Call(i).key].timestamp >= Call(i).setAt[1]
           /\ cache[Call(i).key].timestamp >= Call(j).setAt[1]
\* Two list_components both missed; each GET brought another edition; the one
\* that began first wrote last, at a later time, and its edition is in the Map
\* while the other invocation returned its own.
C23_Witness ==
  \E i, j \in DOMAIN calls :
    /\ Racing(i, j)
    /\ Call(i).setAt # <<>> /\ Call(j).setAt # <<>>
    /\ Call(j).setAt[1] < Call(i).setAt[1]
    /\ Call(i).settled[1].value # Call(j).settled[1].value
    /\ Fetched(Call(j)).value = Call(j).settled[1].value
    /\ cache[Call(i).key] = [data |-> Call(i).settled[1].value, timestamp |-> Call(i).setAt[1]]
    /\ Cardinality(DOMAIN cache) = 1

\* C24: reading the cache changes nothing in it: a step in which an invocation
\* begins (and reads) leaves the Map as it was, fresh entry or expired.  No step
\* removes a key, and an entry changes only when a fetch for its key succeeds,
\* to that fetch's validated document under the time of the write.
C24_ReadsLeaveTheMapAlone ==
  [][/\ Len(calls') > Len(calls) => cache' = cache
     /\ DOMAIN cache \subseteq DOMAIN cache'
     /\ \A k \in DOMAIN cache' :
          (k \notin DOMAIN cache \/ cache'[k] # cache[k]) =>
            \E i \in DOMAIN calls :
              /\ Call(i).key = k /\ Call(i).pc = "awaiting"
              /\ calls'[i].pc = "returned" /\ calls'[i].settled[1].ok
              /\ cache'[k] = [data |-> calls'[i].settled[1].value, timestamp |-> now]]_vars
\* An invocation found the entry of its key expired and its own GET failed: the
\* entry is still in the Map with the value and the timestamp it had.
C24_Witness ==
  \E i \in Revalidations :
    /\ Call(i).seen # <<>>
    /\ Call(i).pc = "threw"
    /\ now - Call(i).entryAt[1] > CACHE_TTL
    /\ cache[Call(i).key] = [data |-> Call(i).seen[1].data, timestamp |-> Call(i).entryAt[1]]

\* C25: an invocation issues at most one GET, in the step in which it begins:
\* none when it is a documentation tool or a static resource, none when the
\* entry of its key is younger than CACHE_TTL at its cache read, one otherwise;
\* once it has returned or thrown, its record, the GET included, never changes.
FreshEntry(c) == c.entryAt # <<>> /\ c.readAt - c.entryAt[1] < CACHE_TTL
C25_AtMostOneGet ==
  /\ [](\A i \in DOMAIN calls :
          LET c == Call(i)
          IN /\ Len(c.url) <= 1 /\ Len(c.response) <= Len(c.url)
             /\ ToolFetches(c.tool) \notin {"index", "component"} =>
                  c.url = <<>> /\ Finished(c)
             /\ ToolFetches(c.tool) \in {"index", "component"} =>
                  /\ FreshEntry(c) => (c.url = <<>> /\ c.pc = "returned")
                  /\ ~FreshEntry(c) => Len(c.url) = 1
                  /\ c.pc = "threw" => (Len(c.url) = 1 /\ Len(c.response) = 1))
  /\ [][\A i \in DOMAIN calls :
          /\ calls'[i].url = Call(i).url
          /\ Call(i).response # <<>> => calls'[i].response = Call(i).response
          /\ Finished(Call(i)) => calls'[i] = Call(i)]_vars
\* A read of the categories resource missed and its one GET filled the cache;
\* list_components, begun afterwards, issued none.
C25_Witness ==
  \E i, j \in DOMAIN calls :
    /\ Call(i).tool = "brutalist-ui://registry/categories"
    /\ Len(Call(i).url) = 1 /\ Call(i).pc = "returned"
    /\ Call(j).tool = "list_components"
    /\ FreshEntry(Call(j)) /\ Call(j).url = <<>> /\ Call(j).pc = "returned"

\* C26: the four documentation tools read no cache entry, issue no GET and write
\* nothing into the Map; what they answer is what the file system and the
\* static catalog give for their arguments, now as when they ran, whatever the
\* Map holds and whatever became of the registry's GETs in between.
IsDocumentationCall(c) == ToolFetches(c.tool) \in {"docs", "catalog"}
C26_DocumentationBypassesRegistry ==
  /\ [](\A i \in DOMAIN calls :
          IsDocumentationCall(Call(i)) =>
            /\ Call(i).key = Null /\ Call(i).entryAt = <<>> /\ Call(i).cached = <<>>
            /\ Call(i).url = <<>> /\ Call(i).response = <<>> /\ Call(i).setAt = <<>>
            /\ \A k \in DOMAIN lastSet : lastSet[k].by # i
            /\ Finished(Call(i))
            /\ Call(i).settled = <<DocumentationOutcome(Call(i).tool, Call(i).params)>>
            /\ \A j \in DOMAIN calls :
                 (i < j /\ Call(j).tool = Call(i).tool /\ Call(j).params = Call(i).params)
                   => /\ Call(j).settled = Call(i).settled
                      /\ ToolResult(Call(j)) = ToolResult(Call(i)))
  /\ [][(Len(calls') > Len(calls) /\ IsDocumentationCall(calls'[Len(calls')]))
          => (cache' = cache /\ lastSet' = lastSet)]_vars
\* list_components brought the index into the cache and the documentation of a
\* component was read from the component's page on the disk.
C26_Witness ==
  \E i, j \in DOMAIN calls :
    /\ Call(j).tool = "list_components" /\ Call(j).setAt # <<>>
    /\ IndexCacheKey \in DOMAIN cache
    /\ Call(i).tool = "get_component_documentation"
    /\ DOMAIN disk # {}
    /\ Call(i).settled[1].ok
    /\ Call(i).settled[1].value # DefaultDocumentation(Call(i).params.componentName)
    /\ ToolResult(Call(i)).content.documentation = Call(i).settled[1].value

\* C27: whatever handlers were handed a cached document, the value under a key
\* is the document that the fetch which stored it validated, under the time of
\* that write; the value under a key changes only in a step in which a fetch
\* for the key succeeds, and then to that fetch's document.
Validated(c) ==
  IF c.key = IndexCacheKey THEN ParseRegistryIndex(c.response[1].data)
  ELSE ParseComponent(c.response[1].data)
C27_CachedValuesAreNotMutated ==
  /\ [](\A k \in DOMAIN cache :
          /\ k \in DOMAIN lastSet
          /\ LET w == Call(lastSet[k].by)
             IN /\ w.key = k /\ w.setAt # <<>> /\ w.settled[1].ok
                /\ cache[k] = [data |-> Validated(w), timestamp |-> w.setAt[1]]
                /\ w.settled[1].value = Validated(w)
          /\ \A i \in DOMAIN calls :
               (Call(i).key = k /\ Call(i).cached # <<>> /\ Call(i).seen[1].by = lastSet[k].by)
                 => Call(i).cached = <<cache[k].data>>)
  /\ [][\A k \in DOMAIN cache :
          cache'[k] # cache[k] =>
            \E i \in DOMAIN calls :
              /\ Call(i).key = k /\ Call(i).pc = "awaiting" /\ calls'[i].pc = "returned"
              /\ cache'[k] = [data |-> Validated(calls'[i]), timestamp |-> now]]_vars
\* The index that list_components fetched was afterwards handed, from the cache,
\* to the handler of the categories resource; the Map still holds the document
\* as it was validated.
C27_Witness ==
  \E i, j \in DOMAIN calls :
    /\ Call(i).tool = "list_components" /\ Call(i).setAt # <<>>
    /\ Call(j).tool = "brutalist-ui://registry/categories"
    /\ Call(j).cached = <<Call(i).settled[1].value>>
    /\ cache[IndexCacheKey].data = ParseRegistryIndex(IndexDocA)
    /\ ToolResult(Call(j)).contents[1].mimeType = "application/json"

\* C28: a fetch that ends in an error writes nothing: the step in which the
\* registry client throws leaves the Map as it was, and the failed invocation
\* is the writer of no entry.  A component with a file that has neither path
\* nor name fails to parse and is not cached.  When the entry of the key had
\* expired, the caller of the failed refetch gets the error, and the old entry
\* stays where it was.
FailedFetches == {i \in DOMAIN calls : Call(i).key # Null /\ Call(i).pc = "threw"}
\* What the Map would hold had the component with the orphan file been accepted.
OrphanParsed == ParseComponent(OrphanFileDoc)
C28_FailedFetchLeavesCache ==
  /\ [](/\ \A i \in FailedFetches :
             LET c == Call(i)
             IN /\ c.url # <<>> /\ c.cached = <<>>
                /\ ~c.settled[1].ok /\ c.setAt = <<>>
                /\ \A k \in DOMAIN lastSet : lastSet[k].by # i
                /\ LET result == ToolResult(c)
                   IN result.isError /\ result.inner = c.settled[1].error
                /\ (c.entryAt # <<>> /\ c.seen # <<>> /\ lastSet[c.key] = c.seen[1]) =>
                     cache[c.key] = [data |-> c.seen[1].data, timestamp |-> c.entryAt[1]]
        /\ \A i \in DOMAIN calls :
             (Call(i).settled # <<>> /\ Call(i).response # <<>>
                /\ Call(i).response[1] = Resolved(OrphanFileDoc)) =>
               /\ i \in FailedFetches
               /\ \A k \in DOMAIN cache : cache[k].data # OrphanParsed
               /\ Call(i).tool = "get_component" =>
                    Call(i).settled[1].error.prefix = "Failed to parse component '")
  /\ [][\A i \in DOMAIN calls :
          (Call(i).pc = "awaiting" /\ calls'[i].pc = "threw")
            => (cache' = cache /\ lastSet' = lastSet)]_vars
\* get_component found the button's entry expired; the refetch brought a
\* component with a nameless, pathless file: the caller got the parse error and
\* the Map holds the expired entry, untouched.
C28_Witness ==
  \E i \in FailedFetches \cap Revalidations :
    /\ Call(i).tool = "get_component"
    /\ Call(i).response[1] = Resolved(OrphanFileDoc)
    /\ ToolResult(Call(i)).isError
    /\ ToolResult(Call(i)).inner.prefix = "Failed to parse component '"
    /\ cache[Call(i).key] = [data |-> Call(i).seen[1].data, timestamp |-> Call(i).entryAt[1]]
    /\ Cardinality(DOMAIN cache) = 1

\* C29: the entry under "registry-index" was written by an invocation that
\* requested <base>/index.json and holds that response's body as it passed
\* RegistryIndexSchema; the entry under "component-<name>" was written by an
\* invocation of fetchComponent for that very name, which requested
\* <base>/<name>.json, and holds that body as it passed ComponentSchema.  A
\* fetchComponent reads and writes only the key of its own name.
C29_EntriesMatchTheirKeys ==
  /\ \A k \in DOMAIN cache :
       /\ k \in DOMAIN lastSet
       /\ LET w == Call(lastSet[k].by)
              body == w.response[1]
          IN /\ w.key = k /\ body.ok
             /\ k = IndexCacheKey =>
                  /\ ToolFetches(w.tool) = "index"
                  /\ w.url = <<IndexUrl(REGISTRY_BASE_URL)>>
                  /\ RegistryIndexSchema(body.data)
                  /\ cache[k].data = ParseRegistryIndex(body.data)
             /\ k # IndexCacheKey =>
                  /\ ToolFetches(w.tool) = "component"
                  /\ k = ComponentCacheKey(w.params.componentName)
                  /\ w.url = <<ComponentUrl(REGISTRY_BASE_URL, w.params.componentName)>>
                  /\ ComponentSchema(body.data)
                  /\ cache[k].data = ParseComponent(body.data)
  /\ \A i \in DOMAIN calls :
       ToolFetches(Call(i).tool) = "component" =>
         /\ Call(i).key # IndexCacheKey
         /\ Call(i).key = ComponentCacheKey(Call(i).params.componentName)
         /\ Call(i).seen # <<>> =>
              /\ ToolFetches(Call(Call(i).seen[1].by).tool) = "component"
              /\ Call(Call(i).seen[1].by).params.componentName = Call(i).params.componentName
         /\ \A k \in DOMAIN lastSet :
              lastSet[k].by = i => k = ComponentCacheKey(Call(i).params.componentName)
\* The index and two components are in the Map, each under its own key; the
\* second component was asked for when the first was already cached.
C29_Witness ==
  \E i, j \in DOMAIN calls :
    /\ Call(i).tool = "get_component" /\ Call(j).tool = "get_component"
    /\ Call(i).params.componentName = "button" /\ Call(j).params.componentName = "missing"
    /\ Call(i).setAt # <<>> /\ Call(j).setAt # <<>>
    /\ Call(j).entryAt = <<>> /\ Call(j).seen = <<>>
    /\ DOMAIN cache = {ComponentCacheKey("button"), ComponentCacheKey("missing")}

\* C30: on the index a get_categories invocation was handed, the count of every
\* key of the category map is the number getComponentsByCategory gives as the
\* total for that key.
C30_CategoryViewsAgree ==
  \A i \in CallsOf("get_categories") :
    \A k \in DOMAIN IndexOf(Call(i)).categories :
      Categories(i).categories[k].count =
        [number |-> getComponentsByCategory(IndexOf(Call(i)), k).total]

====
